---- MODULE Spec2Model ----
(***************************************************************************)
(* Model of the Digikala listing scraper (streamlit_app.py and the         *)
(* notebook variant json_scrapperv2.py): the URL classifier plp_to_api,    *)
(* the record extractor _row and the pagination driver scrape_from_plp.    *)
(*                                                                         *)
(* Python strings are sequences of one-character strings, so that          *)
(* startswith, replace, strip and the character filter of the slug         *)
(* sanitizer are computed as the code computes them.  A JSON value is a    *)
(* record with one field: its name is the Python type of the value, its    *)
(* content the value.                                                      *)
(***************************************************************************)
EXTENDS Integers, Sequences, FiniteSets, TLC

VARIABLES
    \* ---- plp_to_api (one call)
    plp_url,      \* the listing URL: [path, query]
    api,          \* what the call returned, or the error it raised
    upc,          \* "call" before the call, "returned" after it
    \* ---- _row (one call)
    prod,         \* the product node handed to _row
    row,          \* the record returned, or the exception raised
    rpc,          \* "call" / "returned"
    \* ---- scrape_from_plp (one run)
    pc,           \* position in the run: "while", "for", "sleep", "done", "failed"
    target_count, \* the argument target_count
    page, collected, seen_ids, all_rows, consecutive_empty_pages,
    data,         \* what _get_json gave for the current page
    products, idx, products_added_this_page,
    status_text,  \* the last message written to status_text
    df,           \* the returned rows, NoDf until the run returns
    fetched,      \* the page numbers handed to _get_json, in order
    slept,        \* number of time.sleep(SLEEP_BETWEEN) calls
    feed,         \* which family of payloads the API serves in this run
    \* ---- _update_url_page (one call)
    start_url,    \* the endpoint handed to _update_url_page
    new_page,     \* the argument new_page
    page_url,     \* the endpoint returned
    ppc,          \* "call" / "returned"
    \* ---- _get_json (one call)
    gpc,          \* "call", "proxy" / "direct" (about to send a request), "returned", "raised"
    variant,      \* "app" (streamlit_app.py) or "notebook" (json_scrapperv2.py)
    use_scrapingbee, scrapingbee_api_keys, fallback_to_direct,   \* the arguments
    api_keys,     \* the normalized key list
    key_idx,      \* position in api_keys (from 1)
    attempt,      \* the loop variable of range(RETRIES)
    failed_keys,
    requests,     \* the requests sent so far: the key each went through, or "direct"
    response,     \* the response to the last request
    naps,         \* number of time.sleep(0.7) calls
    returned,     \* the value returned
    api_key_stats \* the usage counters of each key, or None

urlVars == <<plp_url, api, upc>>
rowVars == <<prod, row, rpc>>
drvVars == <<pc, target_count, page, collected, seen_ids, all_rows,
             consecutive_empty_pages, data, products, idx,
             products_added_this_page, status_text, df, fetched, slept, feed>>
pageVars == <<start_url, new_page, page_url, ppc>>
getVars == <<gpc, variant, use_scrapingbee, scrapingbee_api_keys, fallback_to_direct,
             api_keys, key_idx, attempt, failed_keys, requests, response, naps, returned,
             api_key_stats>>
vars == <<urlVars, rowVars, drvVars, pageVars, getVars>>

-----------------------------------------------------------------------------
(* Strings *)

S_empty == << >>
S_search == <<"s","e","a","r","c","h">>
S_facet == <<"f","a","c","e","t">>
S_tags == <<"t","a","g","s">>
S_brand == <<"b","r","a","n","d">>
S_brands == <<"b","r","a","n","d","s">>
S_categories == <<"c","a","t","e","g","o","r","i","e","s">>
S_category_ == <<"c","a","t","e","g","o","r","y","-">>
S_v1 == <<"v","1">>
S_q == <<"q">>
S_page == <<"p","a","g","e">>
S_sort == <<"s","o","r","t">>
S_1 == <<"1">>
S_7 == <<"7">>
S_facetURL == <<"f","a","c","e","t","U","R","L">>

\* str.isalnum() of one character: letters and digits of any script
AlnumChars == {"a","b","c","d","e","f","g","h","i","j","k","l","m","n","o","p",
               "q","r","s","t","u","v","w","x","y","z","A","B","C","D","E","F",
               "G","H","I","J","K","L","M","N","O","P","Q","R","S","T","U","V",
               "W","X","Y","Z","0","1","2","3","4","5","6","7","8","9","U+00E9"}

IsAlnum(ch) == ch \in AlnumChars

\* s.startswith(prefix)
StartsWith(s, prefix) ==
    Len(s) >= Len(prefix) /\ SubSeq(s, 1, Len(prefix)) = prefix

\* s.replace(old, ""): every non-overlapping occurrence of old, left to right
RECURSIVE Remove(_, _)
Remove(s, old) ==
    IF Len(s) < Len(old) THEN s
    ELSE IF StartsWith(s, old) THEN Remove(SubSeq(s, Len(old) + 1, Len(s)), old)
    ELSE <<Head(s)>> \o Remove(Tail(s), old)

\* s.strip("/")
RECURSIVE LStripSlash(_)
LStripSlash(s) ==
    IF s # << >> /\ Head(s) = "/" THEN LStripSlash(Tail(s)) ELSE s

RECURSIVE RStripSlash(_)
RStripSlash(s) ==
    IF s # << >> /\ s[Len(s)] = "/" THEN RStripSlash(SubSeq(s, 1, Len(s) - 1)) ELSE s

StripSlash(s) == RStripSlash(LStripSlash(s))

\* s.split("/"): never empty, "" gives [""]
RECURSIVE SplitFrom(_, _)
SplitFrom(s, cur) ==
    IF s = << >> THEN <<cur>>
    ELSE IF Head(s) = "/" THEN <<cur>> \o SplitFrom(Tail(s), << >>)
    ELSE SplitFrom(Tail(s), Append(cur, Head(s)))

SplitSlash(s) == SplitFrom(s, << >>)

\* "".join(ch for ch in slug if ch.isalnum() or ch == "-") with a weaker
\* filter that lets the underscore through
sanitize_keeps_underscore(slug) ==
    SelectSeq(slug, LAMBDA ch : IsAlnum(ch) \/ ch = "-" \/ ch = "_")

\* "".join(ch for ch in slug if ch.isalnum() or ch == "-")
sanitize(slug) == SelectSeq(slug, LAMBDA ch : IsAlnum(ch) \/ ch = "-")

\* list.index(x): position (from 1) of the first element equal to x
IndexOf(seq, x) == CHOOSE i \in 1..Len(seq) : seq[i] = x /\ \A j \in 1..(i - 1) : seq[j] # x

Contains(seq, x) == \E i \in 1..Len(seq) : seq[i] = x

\* urllib.parse.quote of one character: a space becomes %20
QuotePlusChar_percent20(ch) ==
    IF ch \in (AlnumChars \ {"U+00E9"}) \/ ch \in {"_", ".", "-", "~"} THEN <<ch>>
    ELSE IF ch = " " THEN <<"%","2","0">>
    ELSE <<"%","?","?">>

\* urllib.parse.quote_plus of one character (urlencode's default quoting)
QuotePlusChar(ch) ==
    IF ch \in (AlnumChars \ {"U+00E9"}) \/ ch \in {"_", ".", "-", "~"} THEN <<ch>>
    ELSE IF ch = " " THEN <<"+">>
    ELSE IF ch = "[" THEN <<"%","5","B">>
    ELSE IF ch = "]" THEN <<"%","5","D">>
    ELSE IF ch = "!" THEN <<"%","2","1">>
    ELSE IF ch = "U+00E9" THEN <<"%","C","3","%","A","9">>
    ELSE <<"%","?","?">>

RECURSIVE QuotePlus(_)
QuotePlus(s) == IF s = << >> THEN << >> ELSE QuotePlusChar(Head(s)) \o QuotePlus(Tail(s))

\* urlencode(d) of a dict given as a sequence of [k, v] in insertion order:
\* the sequence of quoted key=value pairs (joined by "&" in the URL)
urlencode(d) == [i \in 1..Len(d) |-> [k |-> QuotePlus(d[i].k), v |-> QuotePlus(d[i].v)]]

\* parse_qs(query) of a raw query given as [k, v] pairs already percent-decoded:
\* pairs with a blank value are dropped (keep_blank_values is False), the
\* values of one key are collected in order
parse_qs_values(query, key) ==
    LET hit == SelectSeq(query, LAMBDA kv : kv.k = key /\ kv.v # << >>)
    IN [i \in 1..Len(hit) |-> hit[i].v]

-----------------------------------------------------------------------------
(* plp_to_api *)

Endpoint(path, query) == [t |-> "ok", path |-> path, query |-> query]
ValueError == [t |-> "ValueError", path |-> << >>, query |-> << >>]
NoApi == [t |-> "none", path |-> << >>, query |-> << >>]

\* the static query text "page=1" / "sort=7&page=1" of the f-strings
PageOnly == <<[k |-> S_page, v |-> S_1]>>
SortPage == <<[k |-> S_sort, v |-> S_7], [k |-> S_page, v |-> S_1]>>

parts_of(url) == SplitSlash(StripSlash(url.path))

\* lines 46-50
q_cond(url) == parse_qs_values(url.query, S_q) # << >>
q_api(url) ==
    Endpoint(<<S_v1, S_search>>,
             urlencode(<<[k |-> S_q, v |-> parse_qs_values(url.query, S_q)[1]],
                         [k |-> S_page, v |-> S_1]>>))

\* the segments after "facet" with the empty ones kept
facet_segments_unfiltered(parts) ==
    SubSeq(parts, IndexOf(parts, S_facet) + 1, Len(parts))

\* lines 53-66
facet_segments(parts) ==
    SelectSeq(SubSeq(parts, IndexOf(parts, S_facet) + 1, Len(parts)),
              LAMBDA part : part # << >>)
facet_cond(parts) ==
    /\ Contains(parts, S_search) /\ Contains(parts, S_facet)
    /\ IndexOf(parts, S_facet) + 1 <= Len(parts)
    /\ facet_segments(parts) # << >>
FacetKey(i) == S_facetURL \o <<"[">> \o <<<<"0","1","2","3","4","5","6","7","8","9">>[i + 1]>> \o <<"]">>
facet_api(parts) ==
    LET segs == facet_segments(parts)
    IN Endpoint(<<S_v1, S_facet, S_search>> \o segs,
                urlencode(SortPage \o [i \in 1..Len(segs) |-> [k |-> FacetKey(i - 1), v |-> segs[i]]]))

\* lines 69-74
tag_cond(parts) == parts # << >> /\ parts[1] = S_tags /\ Len(parts) > 1
tag_api(parts) == Endpoint(<<S_v1, S_tags, sanitize(parts[2])>>, PageOnly)

\* lines 77-82
brand_cond(parts) == parts # << >> /\ parts[1] = S_brand /\ Len(parts) > 1
brand_api(parts) == Endpoint(<<S_v1, S_brands, sanitize(parts[2])>>, PageOnly)

\* lines 85-96
catbrand_cond(parts) ==
    /\ Contains(parts, S_search)
    /\ IndexOf(parts, S_search) + 1 <= Len(parts)
    /\ StartsWith(parts[IndexOf(parts, S_search) + 1], S_category_)
    /\ IndexOf(parts, S_search) + 2 <= Len(parts)
catbrand_api(parts) ==
    LET i == IndexOf(parts, S_search)
    IN Endpoint(<<S_v1, S_categories, sanitize(Remove(parts[i + 1], S_category_)),
                  S_brands, sanitize(parts[i + 2]), S_search>>, PageOnly)

\* lines 100-115: the slug before sanitizing ("" stands for None as well:
\* the code tests it with "not slug" only)
category_raw_slug(parts) ==
    LET cats == SelectSeq(parts, LAMBDA part : StartsWith(part, S_category_))
        s1 == IF cats # << >> THEN Remove(cats[1], S_category_) ELSE << >>
        s2 == IF s1 # << >> THEN s1
              ELSE IF Contains(parts, S_search) /\ IndexOf(parts, S_search) + 1 <= Len(parts)
                   THEN Remove(parts[IndexOf(parts, S_search) + 1], S_category_)
                   ELSE s1
        s3 == IF s2 = << >> /\ parts # << >> THEN Remove(parts[Len(parts)], S_category_) ELSE s2
    IN s3

\* lines 116-121
category_api(parts) ==
    IF category_raw_slug(parts) = << >> THEN ValueError
    ELSE Endpoint(<<S_v1, S_categories, sanitize(category_raw_slug(parts)), S_search>>, SortPage)

\* the order of the tests with the tag test moved before the facet test
plp_to_api_tag_first(url) ==
    LET parts == parts_of(url)
    IN IF q_cond(url) THEN q_api(url)
       ELSE IF tag_cond(parts) THEN tag_api(parts)
       ELSE IF facet_cond(parts) THEN facet_api(parts)
       ELSE IF brand_cond(parts) THEN brand_api(parts)
       ELSE IF catbrand_cond(parts) THEN catbrand_api(parts)
       ELSE category_api(parts)

\* lines 23-121
plp_to_api(url) ==
    LET parts == parts_of(url)
    IN IF q_cond(url) THEN q_api(url)
       ELSE IF facet_cond(parts) THEN facet_api(parts)
       ELSE IF tag_cond(parts) THEN tag_api(parts)
       ELSE IF brand_cond(parts) THEN brand_api(parts)
       ELSE IF catbrand_cond(parts) THEN catbrand_api(parts)
       ELSE category_api(parts)

-----------------------------------------------------------------------------
(* JSON values and the Python operations the extractors apply to them *)

JNull == [null |-> 0]
JBool(b) == [bool |-> b]
\* an int
JNum(n) == [num |-> n]
\* a float with one decimal, held in tenths: JFloat(125) is 12.5
JFloat(tenths) == [float |-> tenths]
JStr(s) == [str |-> s]
JList(items) == [list |-> items]
\* a dict: its items [k, v] in insertion order, k a key name
JDict(items) == [dict |-> items]
\* an exception leaving the function
Raise(e) == [raise |-> e]

\* the type of a value and its content
Ty(x) == CHOOSE f \in DOMAIN x : TRUE
Va(x) == x[Ty(x)]

IsRaise(x) == Ty(x) = "raise"
\* x is True
IsTrue(x) == Ty(x) = "bool" /\ Va(x)
HasKey(d, k) == \E i \in 1..Len(Va(d)) : Va(d)[i].k = k
Item(d, k) == Va(d)[CHOOSE i \in 1..Len(Va(d)) : Va(d)[i].k = k].v
\* d.get(k) of a dict d
dict_get(d, k) == IF HasKey(d, k) THEN Item(d, k) ELSE JNull

\* a path element of _safe_get: a key, or a list position
Key(k) == [key |-> k, index |-> -1]
At(i) == [key |-> "", index |-> i]

\* bool(x)
Truthy(x) ==
    CASE Ty(x) = "null" -> FALSE
      [] Ty(x) = "bool" -> Va(x)
      [] Ty(x) \in {"num", "float"} -> Va(x) # 0
      [] OTHER -> Va(x) # << >>

\* a or b
PyOr(a, b) == IF Truthy(a) THEN a ELSE b

IsNumeric(x) == Ty(x) \in {"num", "float", "bool"}
\* the value of an int, float or bool in tenths
Tenths(x) ==
    CASE Ty(x) = "num" -> 10 * Va(x)
      [] Ty(x) = "float" -> Va(x)
      [] Ty(x) = "bool" -> IF Va(x) THEN 10 ELSE 0

\* the order of the characters the model uses (their code points)
CharOrder == <<" ", "!", "-", "0", "1", "2", "3", "4", "5", "6", "7", "8", "9",
               "A", "I", "X", "[", "]", "_", "a", "b", "c", "d", "e", "i", "l",
               "n", "r", "x">>
CharRank(ch) == IF Contains(CharOrder, ch) THEN IndexOf(CharOrder, ch) ELSE Len(CharOrder) + 1

RECURSIVE StrGreater(_, _)
StrGreater(a, b) ==
    IF a = << >> THEN FALSE
    ELSE IF b = << >> THEN TRUE
    ELSE IF Head(a) = Head(b) THEN StrGreater(Tail(a), Tail(b))
    ELSE CharRank(Head(a)) > CharRank(Head(b))

\* a > b: "T", "F", or "E" when Python raises TypeError
RECURSIVE PyGreater(_, _)
PyGreater(a, b) ==
    IF IsNumeric(a) /\ IsNumeric(b) THEN (IF Tenths(a) > Tenths(b) THEN "T" ELSE "F")
    ELSE IF Ty(a) = "str" /\ Ty(b) = "str" THEN (IF StrGreater(Va(a), Va(b)) THEN "T" ELSE "F")
    ELSE IF Ty(a) = "list" /\ Ty(b) = "list" THEN
        (IF Va(a) = << >> THEN "F"
         ELSE IF Va(b) = << >> THEN "T"
         ELSE IF Head(Va(a)) = Head(Va(b))
              THEN PyGreater(JList(Tail(Va(a))), JList(Tail(Va(b))))
         ELSE PyGreater(Head(Va(a)), Head(Va(b))))
    ELSE "E"

WhiteSpace == {" "}

\* s.strip()
RECURSIVE LStrip(_)
LStrip(s) == IF s # << >> /\ Head(s) \in WhiteSpace THEN LStrip(Tail(s)) ELSE s
RECURSIVE RStrip(_)
RStrip(s) == IF s # << >> /\ s[Len(s)] \in WhiteSpace THEN RStrip(SubSeq(s, 1, Len(s) - 1)) ELSE s
Strip(s) == RStrip(LStrip(s))

\* isinstance(x, str) and x.strip()
NonBlankStr(x) == Ty(x) = "str" /\ Strip(Va(x)) # << >>

\* s.lower()
UpperChars == <<"A", "I", "X">>
LowerChars == <<"a", "i", "x">>
Lower(s) ==
    [i \in 1..Len(s) |->
        IF Contains(UpperChars, s[i]) THEN LowerChars[IndexOf(UpperChars, s[i])] ELSE s[i]]

\* needle in s, for two strings
IsSubstr(needle, s) ==
    \E i \in 0..(Len(s) - Len(needle)) : SubSeq(s, i + 1, i + Len(needle)) = needle

\* str(n) of an int
RECURSIVE Digits(_)
Digits(n) ==
    IF n < 0 THEN <<"-">> \o Digits(0 - n)
    ELSE IF n < 10 THEN <<<<"0","1","2","3","4","5","6","7","8","9">>[n + 1]>>
    ELSE Digits(n \div 10) \o Digits(n % 10)

\* str(x); the text of a list or dict is kept as one piece
Format(x) ==
    CASE Ty(x) = "str" -> Va(x)
      [] Ty(x) = "num" -> Digits(Va(x))
      [] Ty(x) = "float" ->
           (IF Va(x) < 0 THEN <<"-">> ELSE << >>)
           \o Digits((IF Va(x) < 0 THEN 0 - Va(x) ELSE Va(x)) \div 10) \o <<".">>
           \o Digits((IF Va(x) < 0 THEN 0 - Va(x) ELSE Va(x)) % 10)
      [] Ty(x) = "bool" -> IF Va(x) THEN <<"T","r","u","e">> ELSE <<"F","a","l","s","e">>
      [] Ty(x) = "null" -> <<"N","o","n","e">>
      [] Ty(x) = "list" -> <<"repr(list)">>
      [] Ty(x) = "dict" -> <<"repr(dict)">>

\* lines 130-139
RECURSIVE _safe_get(_, _, _)
_safe_get(d, path, default) ==
    IF path = << >> THEN d
    ELSE LET p == Head(path)
         IN IF Ty(d) = "dict" /\ p.index < 0 /\ HasKey(d, p.key)
            THEN _safe_get(Item(d, p.key), Tail(path), default)
            ELSE IF Ty(d) = "list" /\ p.index >= 0 /\ p.index < Len(Va(d))
            THEN _safe_get(Va(d)[p.index + 1], Tail(path), default)
            ELSE default

\* the dict and list values of a container, in iteration order
Containers(node) ==
    LET vals == IF Ty(node) = "dict" THEN [i \in 1..Len(Va(node)) |-> Va(node)[i].v]
                ELSE IF Ty(node) = "list" THEN Va(node) ELSE << >>
    IN SelectSeq(vals, LAMBDA x : Ty(x) \in {"dict", "list"})

\* the values of a dict, in iteration order
Values(node) == [i \in 1..Len(Va(node)) |-> Va(node)[i].v]

TitleKeys == {"title_fa", "title", "name", "product_title_fa"}

\* lines 343-352: the breadth-first search of _find_products
RECURSIVE find_products_bfs(_)
find_products_bfs(q) ==
    IF q = << >> THEN << >>
    ELSE LET node == Head(q)
         IN IF Ty(node) = "dict" THEN find_products_bfs(Tail(q) \o Values(node))
            ELSE IF /\ Ty(node) = "list" /\ Va(node) # << >> /\ Ty(Va(node)[1]) = "dict"
                    /\ HasKey(Va(node)[1], "id")
                    /\ \E k \in TitleKeys : HasKey(Va(node)[1], k)
            THEN Va(node)
            ELSE find_products_bfs(Tail(q))

\* lines 339-352: the list of products of a payload (a sequence of nodes)
_find_products(payload) ==
    LET prods == _safe_get(payload, <<Key("data"), Key("products")>>, JNull)
    IN IF Ty(prods) = "list" /\ Va(prods) # << >> THEN Va(prods)
       ELSE find_products_bfs(<<payload>>)

\* isinstance(v, (str, int, float, dict)): a bool is an int
DefaultWant == {"str", "num", "float", "bool", "dict"}

\* lines 354-372, from the queue q on
RECURSIVE deep_find_bfs(_, _, _)
deep_find_bfs(q, candidate_keys, want_type) ==
    IF q = << >> THEN JNull
    ELSE LET node == Head(q)
             hits == IF Ty(node) = "dict"
                     THEN SelectSeq(Va(node), LAMBDA kv : kv.k \in candidate_keys /\ Ty(kv.v) \in want_type)
                     ELSE << >>
         IN IF hits # << >> THEN hits[1].v
            ELSE deep_find_bfs(Tail(q) \o Containers(node), candidate_keys, want_type)

_deep_find_first(p, candidate_keys, want_type) == deep_find_bfs(<<p>>, candidate_keys, want_type)

NameKeys == <<"title_fa", "title_en", "title", "name_fa", "name">>

\* lines 379-382 / 387-390: the first non-blank name of a brand dict, None if none
brand_name(v) ==
    LET good == SelectSeq(NameKeys, LAMBDA kk : NonBlankStr(dict_get(v, kk)))
    IN IF good # << >> THEN JStr(Strip(Va(dict_get(v, good[1])))) ELSE JNull

\* lines 374-391, for a dict
_extract_brand(p) ==
    LET v == dict_get(p, "brand")
        val == _deep_find_first(p, {"brand", "brand_title", "brand_name", "brand_fa", "brand_en"},
                                DefaultWant)
    IN IF NonBlankStr(v) THEN JStr(Strip(Va(v)))
       ELSE IF Ty(v) = "dict" /\ Ty(brand_name(v)) # "null" THEN brand_name(v)
       ELSE IF NonBlankStr(val) THEN JStr(Strip(Va(val)))
       ELSE IF Ty(val) = "dict" /\ Ty(brand_name(val)) # "null" THEN brand_name(val)
       ELSE JStr(<< >>)

\* lines 393-413, for a dict
_extract_category(p) ==
    LET v == dict_get(p, "category")
        code0 == IF Ty(v) = "dict" THEN dict_get(v, "code") ELSE JNull
        name0 == IF Ty(v) = "dict" THEN PyOr(dict_get(v, "title_fa"), dict_get(v, "title")) ELSE JNull
        cats == dict_get(p, "categories")
        useC0 == /\ ~(Truthy(code0) /\ Truthy(name0))
                 /\ Ty(cats) = "list" /\ Va(cats) # << >> /\ Ty(Va(cats)[1]) = "dict"
        code == IF useC0 THEN PyOr(code0, dict_get(Va(cats)[1], "code")) ELSE code0
        name_fa == IF useC0
                   THEN PyOr(PyOr(name0, dict_get(Va(cats)[1], "title_fa")), dict_get(Va(cats)[1], "title"))
                   ELSE name0
        val == _deep_find_first(p, {"category", "category_title", "cat_title_fa", "cat_name"},
                                DefaultWant)
    IN IF NonBlankStr(v) THEN JStr(Strip(Va(v)))
       ELSE IF Truthy(code) \/ Truthy(name_fa) THEN
            (IF Ty(PyOr(name_fa, JStr(<< >>))) # "str" THEN Raise("AttributeError")
             ELSE JStr(<<"[">> \o Format(PyOr(code, JStr(<< >>))) \o <<",">>
                       \o Strip(Va(PyOr(name_fa, JStr(<< >>)))) \o <<"]">>))
       ELSE IF NonBlankStr(val) THEN JStr(Strip(Va(val)))
       ELSE JStr(<< >>)

UriPrefix == <<"https://www.digikala.com/product/dkp-">>

\* lines 415-420, for a dict
_extract_uri(p) ==
    LET pid == dict_get(p, "id")
    IN IF Truthy(pid) /\ Strip(Format(pid)) # << >>
       THEN JStr(UriPrefix \o Strip(Format(pid)))
       ELSE JStr(<< >>)

\* the first value of the paths that is truthy, else the last resort
first_not_none_truthy(p, paths, otherwise) ==
    LET hit == SelectSeq(paths, LAMBDA path : Truthy(_safe_get(p, path, JNull)))
    IN IF hit # << >> THEN _safe_get(p, hit[1], JNull) ELSE otherwise

\* the first value of the paths that is not None, else the last resort
first_not_none(p, paths, otherwise) ==
    LET hit == SelectSeq(paths, LAMBDA path : Ty(_safe_get(p, path, JNull)) # "null")
    IN IF hit # << >> THEN _safe_get(p, hit[1], JNull) ELSE otherwise

\* lines 422-432
_extract_selling_price(p) ==
    first_not_none(p,
        << <<Key("price"), Key("selling_price")>>,
           <<Key("default_variant"), Key("price"), Key("selling_price")>>,
           <<Key("variants"), At(0), Key("price"), Key("selling_price")>>,
           <<Key("summary"), Key("price"), Key("selling_price")>> >>,
        _safe_get(p, <<Key("min_price")>>, JNull))

\* lines 462-472
_extract_rrp_price(p) ==
    first_not_none(p,
        << <<Key("price"), Key("rrp_price")>>,
           <<Key("default_variant"), Key("price"), Key("rrp_price")>>,
           <<Key("summary"), Key("price"), Key("rrp_price")>>,
           <<Key("price_history"), Key("min_last_30d")>> >>,
        JNull)

ItemCategoryKeys == <<"item_category2", "item_category3", "item_category4", "item_category5">>

\* lines 443-459, from the queue q on: result maps the four names to strings
RECURSIVE item_categories_bfs(_, _)
item_categories_bfs(q, result) ==
    IF q = << >> THEN result
    ELSE LET node == Head(q)
             filled == [i \in 1..4 |->
                          IF /\ Ty(node) = "dict" /\ result[i] = << >>
                             /\ Ty(dict_get(node, ItemCategoryKeys[i])) = "str"
                          THEN Va(dict_get(node, ItemCategoryKeys[i]))
                          ELSE result[i]]
         IN item_categories_bfs(Tail(q) \o Containers(node), filled)

\* lines 434-460: the four strings, in the order of ItemCategoryKeys
_extract_item_categories(p) ==
    LET direct == [i \in 1..4 |->
                      IF Ty(p) = "dict" /\ Ty(dict_get(p, ItemCategoryKeys[i])) = "str"
                      THEN Va(dict_get(p, ItemCategoryKeys[i])) ELSE << >>]
    IN IF Ty(p) # "dict" THEN [i \in 1..4 |-> << >>]
       ELSE IF \A i \in 1..4 : direct[i] # << >> THEN direct
       ELSE item_categories_bfs(<<p>>, direct)

\* the promotional markers of line 487; a Persian letter is written by its code point
Marker1 == <<"U+0634", "U+06AF", "U+0641", "U+062A">>
Marker2 == <<"U+062A", "U+062E", "U+0641", "U+06CC", "U+0641">>
Marker3 == <<"i","n","c","r","e","d","i","b","l","e">>

\* line 486-487 for one badge: "T", "F", or the exception raised.  A dict title
\* is tested by key; the model has no key that spells a marker.
badge_test(b) ==
    LET title == PyOr(_safe_get(b, <<Key("title")>>, JNull), JStr(<< >>))
    IN CASE Ty(title) = "str" ->
              IF \/ IsSubstr(Marker1, Va(title)) \/ IsSubstr(Marker2, Va(title))
                 \/ IsSubstr(Marker3, Lower(Va(title)))
              THEN "T" ELSE "F"
         [] Ty(title) = "list" ->
              IF \E i \in 1..Len(Va(title)) :
                    Ty(Va(title)[i]) = "str" /\ Va(Va(title)[i]) \in {Marker1, Marker2}
              THEN "T" ELSE "AttributeError"
         [] Ty(title) = "dict" -> "AttributeError"
         [] OTHER -> "TypeError"

\* lines 485-489: the badges from the first on
RECURSIVE badges_scan(_)
badges_scan(badges) ==
    IF badges = << >> THEN JBool(FALSE)
    ELSE IF badge_test(Head(badges)) = "T" THEN JBool(TRUE)
    ELSE IF badge_test(Head(badges)) = "F" THEN badges_scan(Tail(badges))
    ELSE Raise(badge_test(Head(badges)))

\* lines 474-489, for a dict
_extract_is_promotion(p) ==
    LET badges == PyOr(_safe_get(p, <<Key("badges")>>, JNull), JList(<< >>))
    IN IF IsTrue(dict_get(p, "is_incredible")) THEN JBool(TRUE)
       ELSE IF IsTrue(dict_get(p, "is_promotion")) THEN JBool(TRUE)
       ELSE IF IsTrue(_safe_get(p, <<Key("price"), Key("is_promotion")>>, JNull)) THEN JBool(TRUE)
       ELSE IF IsTrue(_safe_get(p, <<Key("default_variant"), Key("price"), Key("is_promotion")>>, JNull))
            THEN JBool(TRUE)
       ELSE IF Ty(badges) = "list" THEN badges_scan(Va(badges))
       ELSE JBool(FALSE)

\* the quotient cut to one decimal instead of rounded
RoundTenths_floor(num, den) == (10 * num) \div den

\* round(x, 1) of the quotient num / den (den > 0, num >= 0), in tenths;
\* a tie goes to the even tenth
RoundTenths(num, den) ==
    LET fl == (10 * num) \div den
        rem == (10 * num) % den
    IN IF 2 * rem > den THEN fl + 1
       ELSE IF 2 * rem < den THEN fl
       ELSE IF fl % 2 = 0 THEN fl ELSE fl + 1

DiscountPaths ==
    << <<Key("price"), Key("discount_percent")>>,
       <<Key("default_variant"), Key("price"), Key("discount_percent")>>,
       <<Key("summary"), Key("price"), Key("discount_percent")>> >>

OriginalPaths ==
    << <<Key("price"), Key("rrp_price")>>,
       <<Key("price"), Key("original_price")>>,
       <<Key("default_variant"), Key("price"), Key("rrp_price")>>,
       <<Key("default_variant"), Key("price"), Key("original_price")>>,
       <<Key("summary"), Key("price"), Key("rrp_price")>> >>

\* lines 492-499 from the first path on: the value returned, JNull when the
\* loop ends without returning, or the TypeError of "val > 0"
RECURSIVE discount_direct(_, _)
discount_direct(p, paths) ==
    IF paths = << >> THEN JNull
    ELSE LET val == _safe_get(p, Head(paths), JNull)
         IN IF Ty(val) = "null" THEN discount_direct(p, Tail(paths))
            ELSE IF PyGreater(val, JNum(0)) = "E" THEN Raise("TypeError")
            ELSE IF PyGreater(val, JNum(0)) = "T" THEN val
            ELSE discount_direct(p, Tail(paths))

\* lines 504-514 from the first path on: the original price, JNull if none, or
\* the TypeError of "val > selling"
RECURSIVE discount_original(_, _, _)
discount_original(p, paths, selling) ==
    IF paths = << >> THEN JNull
    ELSE LET val == _safe_get(p, Head(paths), JNull)
         IN IF Ty(val) = "null" THEN discount_original(p, Tail(paths), selling)
            ELSE IF PyGreater(val, selling) = "E" THEN Raise("TypeError")
            ELSE IF PyGreater(val, selling) = "T" THEN val
            ELSE discount_original(p, Tail(paths), selling)

\* lines 515-518: original is not None and is greater than selling
discount_computed(original, selling) ==
    IF ~Truthy(original) THEN JNull
    ELSE IF ~(IsNumeric(original) /\ IsNumeric(selling)) THEN Raise("TypeError")
    ELSE JFloat(RoundTenths(100 * (Tenths(original) - Tenths(selling)), Tenths(original)))

\* lines 491-518
_extract_discount_percent(p) ==
    LET direct == discount_direct(p, DiscountPaths)
        selling == _extract_selling_price(p)
        original == discount_original(p, OriginalPaths, selling)
    IN IF Ty(direct) # "null" THEN direct
       ELSE IF Ty(selling) = "null" THEN JNull
       ELSE IF IsRaise(original) THEN original
       ELSE discount_computed(original, selling)

\* the columns of a record, in the order of the dict literal of lines 522-538
Cols == <<"uri", "title_fa", "id", "brand", "category",
          "item_category2", "item_category3", "item_category4", "item_category5",
          "rating.rate", "rating.count", "selling_price",
          "rrp_price", "is_promotion", "discount_percent">>

\* the values of the dict literal of lines 522-538, in evaluation order
row_values(p) ==
    LET cats == _extract_item_categories(p)
    IN << _extract_uri(p),
          PyOr(PyOr(dict_get(p, "title_fa"), dict_get(p, "title")), JStr(<< >>)),
          dict_get(p, "id"),
          _extract_brand(p),
          _extract_category(p),
          JStr(cats[1]), JStr(cats[2]), JStr(cats[3]), JStr(cats[4]),
          _safe_get(p, <<Key("rating"), Key("rate")>>, JNull),
          _safe_get(p, <<Key("rating"), Key("count")>>, JNull),
          _extract_selling_price(p),
          _extract_rrp_price(p),
          _extract_is_promotion(p),
          _extract_discount_percent(p) >>

\* lines 520-538: the record, or the first exception a sub-extractor raises
\* (prod.get of a node that is no dict raises AttributeError)
_row(p) ==
    IF Ty(p) # "dict" THEN Raise("AttributeError")
    ELSE LET vals == row_values(p)
             bad == SelectSeq(vals, LAMBDA x : IsRaise(x))
         IN IF bad # << >> THEN bad[1]
            ELSE JDict([i \in 1..Len(Cols) |-> [k |-> Cols[i], v |-> vals[i]]])

-----------------------------------------------------------------------------
(* Idle values of the state a specification does not use *)

NoUrl == [path |-> << >>, query |-> << >>]
NoProd == JNull
NoRow == [none |-> 0]
NoData == [none |-> 0]
NoDf == [t |-> "none", rows |-> << >>]

NoResponse == [kind |-> "none", body |-> NoData]
NoKeys == [none |-> 0]
NoStats == [none |-> 0]
GetIdle ==
    /\ gpc = "idle" /\ variant = "app" /\ use_scrapingbee = FALSE
    /\ scrapingbee_api_keys = NoKeys /\ fallback_to_direct = TRUE
    /\ api_keys = << >> /\ key_idx = 0 /\ attempt = 0 /\ failed_keys = << >>
    /\ requests = << >> /\ response = NoResponse /\ naps = 0 /\ returned = NoData
    /\ api_key_stats = NoStats
PageIdle == start_url = NoApi /\ new_page = 0 /\ page_url = NoApi /\ ppc = "idle"
UrlIdle == plp_url = NoUrl /\ api = NoApi /\ upc = "idle"
RowIdle == prod = NoProd /\ row = NoRow /\ rpc = "idle"
DrvIdle ==
    /\ pc = "idle" /\ target_count = 0 /\ page = 0 /\ collected = 0
    /\ seen_ids = {} /\ all_rows = << >> /\ consecutive_empty_pages = 0
    /\ data = NoData /\ products = << >> /\ idx = 0
    /\ products_added_this_page = 0 /\ status_text = "" /\ df = NoDf
    /\ fetched = << >> /\ slept = 0 /\ feed = "idle"

-----------------------------------------------------------------------------
(* The classifier called once on a listing URL *)

MaxSegs == 3

SegAlphabet ==
    { S_empty, S_search, S_facet, S_tags, S_brand, S_category_,
      S_category_ \o <<"a","b">>, <<"a","_","b">>, <<"x">>, <<"!">>,
      <<"c","a","f","U+00E9","-","1">>,
      S_category_ \o <<"a","-">> \o S_category_ \o <<"b">> }

RECURSIVE JoinSlash(_)
JoinSlash(segs) ==
    IF segs = << >> THEN << >> ELSE <<"/">> \o Head(segs) \o JoinSlash(Tail(segs))

SegLists == UNION { [1..n -> SegAlphabet] : n \in 0..MaxSegs }

Queries ==
    { << >>,
      <<[k |-> S_q, v |-> S_empty]>>,
      <<[k |-> S_q, v |-> <<"r","e","d"," ","s","c","a","r","f">>]>> }

Urls == { [path |-> JoinSlash(segs) \o <<"/">>, query |-> qy] : segs \in SegLists, qy \in Queries }

InitUrl == plp_url \in Urls /\ api = NoApi /\ upc = "call" /\ RowIdle /\ DrvIdle /\ PageIdle /\ GetIdle

Classify ==
    /\ upc = "call"
    /\ api' = plp_to_api(plp_url)
    /\ upc' = "returned"
    /\ UNCHANGED <<pageVars, getVars, plp_url, rowVars, drvVars>>

NextUrl == Classify

SpecUrl == InitUrl /\ [][NextUrl]_vars

-----------------------------------------------------------------------------
(* C1 *)

\* the conditions of the six rules as section 4.1 words them
doc_q(url) == \E i \in 1..Len(url.query) : url.query[i].k = S_q /\ url.query[i].v # << >>
doc_facet(parts) == Contains(parts, S_search) /\ Contains(parts, S_facet)
doc_tag(parts) == Len(parts) > 1 /\ parts[1] = S_tags
doc_brand(parts) == Len(parts) > 1 /\ parts[1] = S_brand
doc_catbrand(parts) ==
    \E i \in 1..Len(parts) :
        parts[i] = S_search /\ i + 2 <= Len(parts) /\ StartsWith(parts[i + 1], S_category_)

\* the facet rule as the code applies it: a non-empty segment follows the
\* first "facet" segment
amended_facet(parts) ==
    /\ doc_facet(parts)
    /\ \E i \in 1..Len(parts) :
          i > IndexOf(parts, S_facet) /\ parts[i] # << >>

\* the category+brand rule as the code applies it: the two segments follow
\* the first "search" segment
amended_catbrand(parts) ==
    /\ Contains(parts, S_search)
    /\ LET i == IndexOf(parts, S_search)
       IN i + 2 <= Len(parts) /\ StartsWith(parts[i + 1], S_category_)

\* C1 as claimed: the endpoint returned is the one built by the earliest rule,
\* in the order search-query, facet, tag, brand, category+brand, category
\* fallback, whose documented condition holds.
C1_DocumentedFirstMatch ==
    upc = "returned" =>
        LET parts == parts_of(plp_url)
        IN /\ doc_q(plp_url) => api = q_api(plp_url)
           /\ (~doc_q(plp_url) /\ doc_facet(parts)) => api = facet_api(parts)
           /\ (~doc_q(plp_url) /\ ~doc_facet(parts) /\ doc_tag(parts))
                 => api = tag_api(parts)
           /\ (~doc_q(plp_url) /\ ~doc_facet(parts) /\ ~doc_tag(parts) /\ doc_brand(parts))
                 => api = brand_api(parts)
           /\ (~doc_q(plp_url) /\ ~doc_facet(parts) /\ ~doc_tag(parts) /\ ~doc_brand(parts)
                 /\ doc_catbrand(parts)) => api = catbrand_api(parts)
           /\ (~doc_q(plp_url) /\ ~doc_facet(parts) /\ ~doc_tag(parts) /\ ~doc_brand(parts)
                 /\ ~doc_catbrand(parts)) => api = category_api(parts)

\* C1 amended: first match wins in the order search-query, facet, tag, brand,
\* category+brand, category fallback, where the facet rule applies only when
\* a non-empty segment follows the first "facet" segment and the
\* category+brand rule only when its two segments follow the first "search"
\* segment.
C1_FirstMatchWins ==
    upc = "returned" =>
        LET parts == parts_of(plp_url)
            r1 == doc_q(plp_url)
            r2 == amended_facet(parts)
            r3 == doc_tag(parts)
            r4 == doc_brand(parts)
            r5 == amended_catbrand(parts)
        IN /\ r1 => api = q_api(plp_url)
           /\ (~r1 /\ r2) => api = facet_api(parts)
           /\ (~r1 /\ ~r2 /\ r3) => api = tag_api(parts)
           /\ (~r1 /\ ~r2 /\ ~r3 /\ r4) => api = brand_api(parts)
           /\ (~r1 /\ ~r2 /\ ~r3 /\ ~r4 /\ r5) => api = catbrand_api(parts)
           /\ (~r1 /\ ~r2 /\ ~r3 /\ ~r4 /\ ~r5) => api = category_api(parts)

\* a URL that satisfies the facet, the tag and the fallback rule was classified
\* by the facet rule
C1_Witness ==
    /\ upc = "returned"
    /\ ~doc_q(plp_url)
    /\ amended_facet(parts_of(plp_url))
    /\ doc_tag(parts_of(plp_url))
    /\ api = facet_api(parts_of(plp_url))
    /\ api # tag_api(parts_of(plp_url))

-----------------------------------------------------------------------------
(* The extractor called once on a product node *)

S_ab == <<"a","b">>

\* the choices for each part of a product dict: no item, or one item
IdChoices == { << >>, <<[k |-> "id", v |-> JNum(1)]>>, <<[k |-> "id", v |-> JStr(<<"a","1">>)]>> }

TitleChoices == { << >>, <<[k |-> "title_fa", v |-> JStr(S_ab)]>> }

BadgeChoices ==
    { << >>,
      <<[k |-> "badges", v |-> JList(<<JDict(<<[k |-> "title", v |-> JStr(<<"I","n","c","r","e","d","i","b","l","e">>)]>>)>>)]>>,
      <<[k |-> "badges", v |-> JList(<<JDict(<<[k |-> "title", v |-> JNum(5)]>>)>>)]>>,
      <<[k |-> "badges", v |-> JList(<<JDict(<<[k |-> "title", v |-> JList(<<JStr(<<"x">>)>>)]>>)>>)]>>,
      <<[k |-> "badges", v |-> JStr(<<"x">>)]>> }

PriceChoices ==
    { << >>,
      <<[k |-> "price", v |-> JDict(<<[k |-> "selling_price", v |-> JNum(800)],
                                      [k |-> "rrp_price", v |-> JNum(1000)]>>)]>>,
      <<[k |-> "price", v |-> JDict(<<[k |-> "selling_price", v |-> JNum(800)]>>)]>>,
      <<[k |-> "price", v |-> JDict(<<[k |-> "selling_price", v |-> JNum(0)],
                                      [k |-> "discount_percent", v |-> JNum(15)]>>)]>>,
      <<[k |-> "price", v |-> JDict(<<[k |-> "selling_price", v |-> JNum(800)],
                                      [k |-> "discount_percent", v |-> JStr(<<"1","0">>)]>>)]>>,
      <<[k |-> "price", v |-> JDict(<<[k |-> "selling_price", v |-> JStr(<<"x">>)],
                                      [k |-> "rrp_price", v |-> JNum(1000)]>>)]>>,
      <<[k |-> "price", v |-> JStr(<<"x">>)],
        [k |-> "min_price", v |-> JNum(700)],
        [k |-> "summary", v |-> JDict(<<[k |-> "price", v |-> JDict(<<[k |-> "rrp_price", v |-> JNum(1000)]>>)]>>)]>>,
      <<[k |-> "price", v |-> JDict(<<[k |-> "selling_price", v |-> JNum(800000)],
                                      [k |-> "rrp_price", v |-> JNum(1000000)]>>)]>>,
      <<[k |-> "price", v |-> JDict(<<[k |-> "selling_price", v |-> JNum(800)],
                                      [k |-> "discount_percent", v |-> JNum(0)]>>)],
        [k |-> "default_variant", v |-> JDict(<<[k |-> "price", v |-> JDict(<<[k |-> "discount_percent", v |-> JNum(15)]>>)]>>)]>>,
      <<[k |-> "price", v |-> JDict(<<[k |-> "selling_price", v |-> JNum(800)],
                                      [k |-> "rrp_price", v |-> JNum(700)],
                                      [k |-> "original_price", v |-> JNum(1000)]>>)]>>,
      <<[k |-> "price", v |-> JDict(<<[k |-> "selling_price", v |-> JNum(1)],
                                      [k |-> "rrp_price", v |-> JNum(3)]>>)]>>,
      <<[k |-> "price", v |-> JDict(<<[k |-> "selling_price", v |-> JNum(0 - 10)],
                                      [k |-> "rrp_price", v |-> JNum(0)],
                                      [k |-> "original_price", v |-> JNum(5)]>>)]>>,
      <<[k |-> "price", v |-> JDict(<<[k |-> "selling_price", v |-> JNull],
                                      [k |-> "rrp_price", v |-> JNum(1000)]>>)],
        [k |-> "variants", v |-> JList(<<JDict(<<[k |-> "price", v |-> JDict(<<[k |-> "selling_price", v |-> JNum(0)]>>)]>>)>>)],
        [k |-> "summary", v |-> JDict(<<[k |-> "price", v |-> JDict(<<[k |-> "selling_price", v |-> JNum(900)]>>)]>>)]>>,
      <<[k |-> "price", v |-> JDict(<<[k |-> "rrp_price", v |-> JNum(1000)]>>)]>> }

CategoryChoices ==
    { << >>,
      <<[k |-> "category", v |-> JStr(<<" ","a","b">>)]>>,
      <<[k |-> "category", v |-> JDict(<<[k |-> "code", v |-> JNum(7)], [k |-> "title_fa", v |-> JStr(S_ab)]>>)]>>,
      <<[k |-> "category", v |-> JDict(<<[k |-> "code", v |-> JNum(7)], [k |-> "title_fa", v |-> JNum(5)]>>)]>>,
      <<[k |-> "categories", v |-> JList(<<JDict(<<[k |-> "title", v |-> JStr(S_ab)]>>)>>)]>> }

BrandChoices ==
    { << >>,
      <<[k |-> "brand", v |-> JStr(<<" ","a","b"," ">>)]>>,
      <<[k |-> "brand", v |-> JDict(<<[k |-> "title_fa", v |-> JStr(<<" ">>)], [k |-> "name", v |-> JStr(S_ab)]>>)]>>,
      <<[k |-> "data_layer", v |-> JDict(<<[k |-> "brand_name", v |-> JStr(S_ab)],
                                           [k |-> "item_category2", v |-> JStr(S_ab)]>>)]>> }

\* what the extractor is handed: assembled product dicts, and nodes that are no dict
ProductNodes ==
    { JDict(i \o ti \o b \o pr \o c \o br) :
        i \in IdChoices, ti \in TitleChoices, b \in BadgeChoices,
        pr \in PriceChoices, c \in CategoryChoices, br \in BrandChoices }
    \cup { JDict(<< >>), JList(<< >>), JNull, JStr(<<"x">>), JNum(3) }

InitRow == prod \in ProductNodes /\ row = NoRow /\ rpc = "call" /\ UrlIdle /\ DrvIdle /\ PageIdle /\ GetIdle

Extract ==
    /\ rpc = "call"
    /\ row' = _row(prod)
    /\ rpc' = "returned"
    /\ UNCHANGED <<pageVars, getVars, prod, urlVars, drvVars>>

NextRow == Extract

SpecRow == InitRow /\ [][NextRow]_vars

-----------------------------------------------------------------------------
(* C6 *)

\* a record with every column of the fixed schema, in order
IsRecord(r) ==
    Ty(r) = "dict" /\ Len(Va(r)) = Len(Cols) /\ \A i \in 1..Len(Cols) : Va(r)[i].k = Cols[i]

\* C6: _row is total: for any product node, well-formed or malformed, it
\* returns a record in which every column of the fixed schema is present, and
\* it never raises.
C6_RowTotal == rpc = "returned" => (~IsRaise(row) /\ IsRecord(row))

-----------------------------------------------------------------------------
(* scrape_from_plp: one run of the pagination driver *)

\* line 561
max_pages == 100

MaxTarget == 2
MaxProducts == 2
LongTarget == 120

\* int(s) of a string of digits, 1 where int() raises (lines 554-557)
RECURSIVE IntOf(_, _)
IntOf(s, acc) ==
    IF s = << >> THEN acc
    ELSE IntOf(Tail(s), 10 * acc + (IndexOf(<<"0","1","2","3","4","5","6","7","8","9">>, Head(s)) - 1))

\* a run that starts at page 2 whatever the endpoint says
start_page_two(endpoint) == 2

\* line 555: the page parameter of the endpoint, 1 when it has none
start_page(endpoint) ==
    LET vals == parse_qs_values(endpoint.query, S_page)
    IN IF vals = << >> THEN 1
       ELSE IF vals[1] # << >> /\ \A i \in 1..Len(vals[1]) : Contains(<<"0","1","2","3","4","5","6","7","8","9">>, vals[1][i])
       THEN IntOf(vals[1], 0)
       ELSE 1

\* line 565
LoopGuard_no_ceiling == collected < target_count
LoopGuard == collected < target_count /\ page <= max_pages

\* lines 651-664: where an exception caught on page pg leaves the run
ExceptOutcome_never_fatal(pg) == "after_loop"
ExceptOutcome(pg) == IF pg = 1 THEN "failed" ELSE "after_loop"

\* lines 575-582: a payload that is None or no dict breaks out of the loop
NonObjectOutcome_as_error == ExceptOutcome(page)
NonObjectOutcome == "after_loop"

\* line 604
EmptyStop_at_first(n) == n >= 1
EmptyStop(n) == n >= 2

\* lines 626 and 640
TargetReached_never(n) == FALSE
TargetReached(n) == n >= target_count

\* line 644
NoNewStop_never(added) == FALSE
NoNewStop(added) == added = 0

\* the key under which a set holds an identifier: equal numbers (1, 1.0, True)
\* are one key
set_key(pid) == IF IsNumeric(pid) THEN JFloat(Tenths(pid)) ELSE pid

Hashable(pid) == Ty(pid) \notin {"list", "dict"}

\* line 619
AlreadySeen_never(pid) == FALSE
AlreadySeen(pid) == set_key(pid) \in seen_ids

\* total_items == 0 (line 595)
EqualsZero(x) == IsNumeric(x) /\ Tenths(x) = 0

\* a driver that never looks at the pager
pager_check_ignored(payload, pg) == "go"

\* lines 585-597: "stop" when the pager ends the run, "go" when it does not,
\* "raise" when the comparison of line 591 raises TypeError
pager_check(payload, pg) ==
    LET pager == _safe_get(payload, <<Key("data"), Key("pager")>>, JNull)
        current_page == _safe_get(pager, <<Key("current_page")>>, JNum(pg))
        total_pages == _safe_get(pager, <<Key("total_pages")>>, JNull)
        total_items == _safe_get(pager, <<Key("total_items")>>, JNum(0))
    IN IF ~Truthy(pager) THEN "go"
       ELSE IF Truthy(total_pages) /\ PyGreater(current_page, total_pages) = "E" THEN "raise"
       ELSE IF Truthy(total_pages) /\ PyGreater(current_page, total_pages) = "T" THEN "stop_pages"
       ELSE IF EqualsZero(total_items) THEN "stop_items"
       ELSE "go"

\* ---- what the API can answer

Product(id) == JDict(<<[k |-> "id", v |-> id], [k |-> "title_fa", v |-> JStr(S_ab)]>>)

\* the entries a product list is made of
Entries ==
    { Product(JNum(1)), Product(JNum(2)),
      \* no id
      JDict(<<[k |-> "title_fa", v |-> JStr(S_ab)]>>),
      \* an id that cannot be hashed
      Product(JList(<<JNum(1)>>)),
      \* no object
      JStr(<<"x">>),
      \* a badge title that is a number
      JDict(<<[k |-> "id", v |-> JNum(4)],
              [k |-> "badges", v |-> JList(<<JDict(<<[k |-> "title", v |-> JNum(5)]>>)>>)]>>) }

ProductLists == UNION { [1..n -> Entries] : n \in 1..MaxProducts }

Listing(list) == JDict(<<[k |-> "data", v |-> JDict(<<[k |-> "products", v |-> JList(list)]>>)]>>)

Paged(pager, list) ==
    JDict(<<[k |-> "data", v |-> JDict(<<[k |-> "pager", v |-> JDict(pager)],
                                         [k |-> "products", v |-> JList(list)]>>)]>>)

Pagers ==
    { <<[k |-> "current_page", v |-> JNum(1)], [k |-> "total_pages", v |-> JNum(5)],
        [k |-> "total_items", v |-> JNum(9)]>>,
      <<[k |-> "current_page", v |-> JNum(6)], [k |-> "total_pages", v |-> JNum(5)],
        [k |-> "total_items", v |-> JNum(9)]>>,
      <<[k |-> "current_page", v |-> JNum(1)], [k |-> "total_pages", v |-> JNum(5)],
        [k |-> "total_items", v |-> JNum(0)]>>,
      <<[k |-> "current_page", v |-> JNum(1)], [k |-> "total_pages", v |-> JNum(5)]>>,
      <<[k |-> "current_page", v |-> JNum(1)], [k |-> "total_pages", v |-> JNum(0)],
        [k |-> "total_items", v |-> JNum(9)]>>,
      <<[k |-> "current_page", v |-> JNum(1)], [k |-> "total_pages", v |-> JStr(<<"5">>)],
        [k |-> "total_items", v |-> JNum(9)]>> }

RichPayloads ==
    { JNull, JList(<<Product(JNum(1))>>), JStr(<<"x">>), JDict(<< >>), Listing(<< >>) }
    \cup { Listing(list) : list \in ProductLists }
    \* the ids 1, 1.0 and True are equal
    \cup { Listing(<<Product(JNum(1)), Product(JFloat(10))>>),
           Listing(<<Product(JBool(TRUE)), Product(JNum(1))>>) }
    \cup { Paged(pager, <<Product(JNum(2))>>) : pager \in Pagers }
    \cup { JDict(<<[k |-> "results", v |-> JDict(<<[k |-> "items", v |-> JList(<<Product(JNum(3))>>)]>>)]>>) }

\* the long feed serves, page after page, nothing or one product not served before
LongPayloads == { Listing(<< >>), Listing(<<Product(JNum(collected + 1))>>) }

Payloads == IF feed = "rich" THEN RichPayloads ELSE LongPayloads

DriverUrls ==
    { [path |-> <<"/">> \o S_search \o <<"/">> \o S_category_ \o S_ab \o <<"/">>, query |-> << >>],
      [path |-> <<"/">>, query |-> << >>] }

InitDriver ==
    /\ feed \in {"rich", "long"}
    /\ target_count \in (IF feed = "rich" THEN 1..MaxTarget ELSE {LongTarget})
    /\ plp_url \in DriverUrls /\ api = NoApi /\ upc = "idle"
    /\ pc = "start" /\ page = 0 /\ collected = 0 /\ seen_ids = {} /\ all_rows = << >>
    /\ consecutive_empty_pages = 0 /\ data = NoData /\ products = << >> /\ idx = 0
    /\ products_added_this_page = 0 /\ status_text = "" /\ df = NoDf
    /\ fetched = << >> /\ slept = 0
    /\ RowIdle /\ PageIdle /\ GetIdle

\* lines 547-563
Start ==
    /\ pc = "start"
    /\ api' = plp_to_api(plp_url)
    /\ IF api'.t = "ValueError"
       THEN pc' = "failed" /\ page' = page
       ELSE pc' = "while" /\ page' = start_page(api')
    /\ UNCHANGED <<pageVars, getVars, plp_url, upc, rowVars, target_count, collected, seen_ids, all_rows,
                   consecutive_empty_pages, data, products, idx,
                   products_added_this_page, status_text, df, fetched, slept, feed>>

\* line 565: the loop ends
LoopExit ==
    /\ pc = "while" /\ ~LoopGuard
    /\ pc' = "after_loop"
    /\ UNCHANGED <<pageVars, getVars, urlVars, rowVars, target_count, page, collected, seen_ids, all_rows,
                   consecutive_empty_pages, data, products, idx,
                   products_added_this_page, status_text, df, fetched, slept, feed>>

\* lines 566-571 and 651-658: _get_json raises RuntimeError
FetchFails ==
    /\ pc = "while" /\ LoopGuard
    /\ fetched' = Append(fetched, page)
    /\ data' = Raise("RuntimeError")
    /\ pc' = ExceptOutcome(page)
    /\ status_text' = IF page = 1 THEN "Error fetching first page" ELSE "Error on page"
    /\ UNCHANGED <<pageVars, getVars, urlVars, rowVars, target_count, page, collected, seen_ids, all_rows,
                   consecutive_empty_pages, products, idx, products_added_this_page,
                   df, slept, feed>>

\* lines 566-613 and 659-664: _get_json returns payload
FetchPage ==
    /\ pc = "while" /\ LoopGuard
    /\ \E payload \in Payloads :
        /\ fetched' = Append(fetched, page)
        /\ data' = payload
        /\ IF Ty(payload) = "null" THEN
                /\ status_text' = "Received None data"
                /\ pc' = NonObjectOutcome
                /\ UNCHANGED <<page, consecutive_empty_pages, products, idx, products_added_this_page>>
           ELSE IF Ty(payload) # "dict" THEN
                /\ status_text' = "Received invalid data type"
                /\ pc' = NonObjectOutcome
                /\ UNCHANGED <<page, consecutive_empty_pages, products, idx, products_added_this_page>>
           ELSE IF pager_check(payload, page) = "raise" THEN
                /\ status_text' = IF page = 1 THEN "Unexpected error on first page"
                                  ELSE "Unexpected error on page"
                /\ pc' = ExceptOutcome(page)
                /\ UNCHANGED <<page, consecutive_empty_pages, products, idx, products_added_this_page>>
           ELSE IF pager_check(payload, page) = "stop_pages" THEN
                /\ status_text' = "No more pages available"
                /\ pc' = "after_loop"
                /\ UNCHANGED <<page, consecutive_empty_pages, products, idx, products_added_this_page>>
           ELSE IF pager_check(payload, page) = "stop_items" THEN
                /\ status_text' = "No products found in this category/search"
                /\ pc' = "after_loop"
                /\ UNCHANGED <<page, consecutive_empty_pages, products, idx, products_added_this_page>>
           ELSE IF _find_products(payload) = << >> THEN
                /\ consecutive_empty_pages' = consecutive_empty_pages + 1
                /\ products' = << >>
                /\ IF EmptyStop(consecutive_empty_pages')
                   THEN /\ status_text' = "No products found on multiple consecutive pages"
                        /\ pc' = "after_loop"
                        /\ page' = page
                   ELSE /\ status_text' = "No products on page"
                        /\ page' = page + 1
                        /\ pc' = "sleep"
                /\ UNCHANGED <<idx, products_added_this_page>>
           ELSE
                /\ products' = _find_products(payload)
                /\ consecutive_empty_pages' = 0
                /\ products_added_this_page' = 0
                /\ idx' = 1
                /\ pc' = "for"
                /\ status_text' = "Fetching page"
                /\ page' = page
    /\ UNCHANGED <<pageVars, getVars, urlVars, rowVars, target_count, collected, seen_ids, all_rows, df, slept, feed>>

\* lines 617-631 and 659-664: one pass of the for loop, on products[idx]
ForStep ==
    /\ pc = "for"
    /\ LET p == products[idx]
           pid == dict_get(p, "id")
           next == IF idx = Len(products) THEN "page_end" ELSE "for"
       IN IF Ty(p) # "dict" \/ ~Hashable(pid) THEN
               \* p.get or "pid in seen_ids" raises, outside the inner try
               /\ pc' = ExceptOutcome(page)
               /\ status_text' = IF page = 1 THEN "Unexpected error on first page"
                                 ELSE "Unexpected error on page"
               /\ UNCHANGED <<idx, all_rows, seen_ids, collected, products_added_this_page>>
          ELSE IF AlreadySeen(pid) \/ IsRaise(_row(p)) THEN
               \* continue
               /\ pc' = next /\ idx' = idx + 1
               /\ UNCHANGED <<status_text, all_rows, seen_ids, collected, products_added_this_page>>
          ELSE
               /\ all_rows' = Append(all_rows, _row(p))
               /\ seen_ids' = seen_ids \cup {set_key(pid)}
               /\ collected' = collected + 1
               /\ products_added_this_page' = products_added_this_page + 1
               /\ idx' = idx + 1
               /\ pc' = IF TargetReached(collected') THEN "page_end" ELSE next
               /\ UNCHANGED status_text
    /\ UNCHANGED <<pageVars, getVars, urlVars, rowVars, target_count, page, consecutive_empty_pages, data,
                   products, df, fetched, slept, feed>>

\* lines 633-648: after the for loop
PageEnd ==
    /\ pc = "page_end"
    /\ IF TargetReached(collected) THEN
            /\ status_text' = "Page added" /\ pc' = "after_loop" /\ page' = page
       ELSE IF NoNewStop(products_added_this_page) THEN
            /\ status_text' = "No new products added" /\ pc' = "after_loop" /\ page' = page
       ELSE /\ status_text' = "Page added" /\ pc' = "sleep" /\ page' = page + 1
    /\ UNCHANGED <<pageVars, getVars, urlVars, rowVars, target_count, collected, seen_ids, all_rows,
                   consecutive_empty_pages, data, products, idx,
                   products_added_this_page, df, fetched, slept, feed>>

\* lines 609 and 649: time.sleep(SLEEP_BETWEEN), then the loop test
Sleep ==
    /\ pc = "sleep"
    /\ slept' = slept + 1
    /\ pc' = "while"
    /\ UNCHANGED <<pageVars, getVars, urlVars, rowVars, target_count, page, collected, seen_ids, all_rows,
                   consecutive_empty_pages, data, products, idx,
                   products_added_this_page, status_text, df, fetched, feed>>

\* lines 666-697: the run returns its rows
AfterLoop ==
    /\ pc = "after_loop"
    /\ status_text' = IF all_rows = << >> THEN "No products were collected"
                      ELSE IF page > max_pages THEN "Reached maximum page limit"
                      ELSE status_text
    /\ df' = [t |-> "df", rows |-> all_rows]
    /\ pc' = "done"
    /\ UNCHANGED <<pageVars, getVars, urlVars, rowVars, target_count, page, collected, seen_ids, all_rows,
                   consecutive_empty_pages, data, products, idx,
                   products_added_this_page, fetched, slept, feed>>

Next == Start \/ LoopExit \/ FetchFails \/ FetchPage \/ ForStep \/ PageEnd \/ Sleep \/ AfterLoop

Init == InitDriver

Spec == Init /\ [][Next]_vars

-----------------------------------------------------------------------------
(* Claims about scrape_from_plp *)

\* the identifier a collected record carries, as a set holds it
RowId(r) == set_key(dict_get(r, "id"))

Stopped == pc \in {"after_loop", "done"}


\* the payload received is no structured object
NonObject(x) == Ty(x) \in {"null", "bool", "num", "float", "str", "list"}

\* C2: no two collected records carry the same identifier, and processing a
\* product whose identifier was already seen leaves the record sequence, the
\* collected count and the seen-identifier set unchanged.
C2_Dedup ==
    /\ [](LET ids == { RowId(all_rows[i]) : i \in 1..Len(all_rows) }
          IN Cardinality(ids) = Len(all_rows) /\ ids = seen_ids)
    /\ [][(/\ pc = "for"
           /\ Ty(products[idx]) = "dict"
           /\ Hashable(dict_get(products[idx], "id"))
           /\ set_key(dict_get(products[idx], "id")) \in seen_ids)
          => (/\ all_rows' = all_rows
              /\ collected' = collected
              /\ seen_ids' = seen_ids
              /\ idx' = idx + 1)]_vars

\* page 2 served the product of page 1 again, and it was skipped
C2_Witness ==
    /\ pc = "page_end" /\ page = 2 /\ idx = 2
    /\ products = <<Product(JNum(1))>>
    /\ Len(all_rows) = 1 /\ RowId(all_rows[1]) = set_key(JNum(1))
    /\ collected = 1 /\ seen_ids = {set_key(JNum(1))}

\* C3: a fetch failure on the first page fetched is fatal and no result is
\* returned; a fetch failure on a later page stops the run, which returns
\* exactly the records collected from the earlier pages.
C3_FetchFailure ==
    /\ []((Ty(data) = "raise" /\ Len(fetched) = 1) => (pc = "failed" /\ df = NoDf))
    /\ []((Ty(data) = "raise" /\ Len(fetched) > 1)
            => (Stopped /\ (pc = "done" => df = [t |-> "df", rows |-> all_rows])))
    /\ [][(Ty(data') = "raise" /\ Len(fetched') > 1)
            => (all_rows' = all_rows /\ collected' = collected)]_vars

\* the fetch of page 2 failed and the run returned the record of page 1
C3_Witness ==
    /\ pc = "done" /\ Ty(data) = "raise" /\ fetched = <<1, 2>>
    /\ Len(all_rows) = 1 /\ df = [t |-> "df", rows |-> all_rows]

\* C4 as stated: a payload that is no structured object is treated like a
\* fetch failure: fatal when received for page 1, and on a later page the run
\* stops and returns the records collected so far.
C4_NonObjectLikeFetchFailure ==
    /\ []((NonObject(data) /\ Len(fetched) = 1) => (pc = "failed" /\ df = NoDf))
    /\ []((NonObject(data) /\ Len(fetched) > 1)
            => (Stopped /\ (pc = "done" => df = [t |-> "df", rows |-> all_rows])))

\* C4, amended: a payload that is no structured object stops the run without
\* an error, on page 1 as on a later page, and the run returns the records
\* collected so far (none when it is page 1).
C4_NonObjectStops ==
    /\ [](NonObject(data)
            => (Stopped /\ (pc = "done" => df = [t |-> "df", rows |-> all_rows])))
    /\ []((NonObject(data) /\ Len(fetched) = 1) => all_rows = << >>)
    /\ [][NonObject(data') => (all_rows' = all_rows /\ collected' = collected)]_vars

\* page 1 answered None and the run returned an empty result
C4_Witness ==
    /\ pc = "done" /\ Ty(data) = "null" /\ fetched = <<1>>
    /\ df = [t |-> "df", rows |-> << >>]

\* C5 as stated: whatever entry of the product list is processed, processing
\* continues with the next product or the end of the page, and an entry whose
\* identifier can be read and was not seen is emitted as a record.
C5_MalformedEntryNeverAborts ==
    [][pc = "for"
        => (/\ pc' \in {"for", "page_end"}
            /\ idx' = idx + 1
            /\ (/\ Ty(products[idx]) = "dict"
                /\ Hashable(dict_get(products[idx], "id"))
                /\ set_key(dict_get(products[idx], "id")) \notin seen_ids)
               => (Len(all_rows') = Len(all_rows) + 1 /\ IsRecord(all_rows'[Len(all_rows')])))]_vars

\* C7: a page all of whose identifiers were seen on earlier pages contributes
\* no record, and the run stops with "No new products added" without fetching
\* another page.
SeenBeforePage ==
    { RowId(all_rows[i]) : i \in 1..(Len(all_rows) - products_added_this_page) }

AllSeenBefore ==
    \A i \in 1..Len(products) :
        /\ Ty(products[i]) = "dict"
        /\ Hashable(dict_get(products[i], "id"))
        /\ set_key(dict_get(products[i], "id")) \in SeenBeforePage

C7_NoNewStops ==
    /\ []((pc \in {"for", "page_end"} /\ AllSeenBefore) => products_added_this_page = 0)
    /\ [][(pc = "for" /\ AllSeenBefore) => all_rows' = all_rows]_vars
    /\ [][(pc = "page_end" /\ AllSeenBefore)
            => (/\ pc' = "after_loop"
                /\ status_text' = "No new products added"
                /\ all_rows' = all_rows)]_vars
    /\ [][Stopped => (fetched' = fetched /\ Stopped')]_vars

\* page 2 repeated the identifier of page 1 and the run stopped
C7_Witness ==
    /\ pc = "after_loop" /\ status_text = "No new products added"
    /\ fetched = <<1, 2>> /\ products = <<Product(JNum(1))>>
    /\ Len(all_rows) = 1 /\ RowId(all_rows[1]) = set_key(JNum(1))

\* C8: the number of collected records never exceeds target_count, and once
\* it has reached target_count no product is extracted and no page is fetched.
C8_TargetBound ==
    /\ [](collected <= target_count /\ Len(all_rows) = collected)
    /\ [][collected >= target_count
            => (all_rows' = all_rows /\ collected' = collected /\ fetched' = fetched
                /\ seen_ids' = seen_ids /\ pc' \in {"page_end", "after_loop", "done"})]_vars

\* the target was reached with a product of the page left unprocessed
C8_Witness ==
    /\ pc = "after_loop" /\ collected = target_count /\ Len(all_rows) = target_count
    /\ idx <= Len(products) /\ status_text = "Page added"

\* C9 as stated: a single empty page is followed by a fetch of the next page,
\* a page with products resets the empty-page count, and the second of two
\* consecutive empty pages ends the run with no further fetch.
C9_EmptyPages ==
    /\ [][(pc = "while" /\ consecutive_empty_pages = 1) => fetched' = Append(fetched, page)]_vars
    /\ [](pc = "for" => consecutive_empty_pages = 0)
    /\ [](consecutive_empty_pages <= 2 /\ (consecutive_empty_pages = 2 => Stopped))
    /\ [](status_text = "No products found on multiple consecutive pages"
            => consecutive_empty_pages = 2)
    /\ [][Stopped => (fetched' = fetched /\ Stopped')]_vars

\* C9, amended: a single empty page is followed by a fetch of the next page
\* unless that page lies beyond max_pages; a page with products resets the
\* empty-page count; the second of two consecutive empty pages ends the run
\* with no further fetch.
C9_EmptyPagesBelowCeiling ==
    /\ [][(pc = "while" /\ consecutive_empty_pages = 1 /\ page <= max_pages)
            => fetched' = Append(fetched, page)]_vars
    /\ [][(pc = "while" /\ consecutive_empty_pages = 1 /\ page > max_pages)
            => (fetched' = fetched /\ pc' = "after_loop")]_vars
    /\ [](pc = "for" => consecutive_empty_pages = 0)
    /\ [](consecutive_empty_pages <= 2 /\ (consecutive_empty_pages = 2 => Stopped))
    /\ [](status_text = "No products found on multiple consecutive pages"
            => consecutive_empty_pages = 2)
    /\ [][(Stopped /\ consecutive_empty_pages = 2) => (fetched' = fetched /\ Stopped')]_vars

\* pages 1 and 3 were empty, page 2 was not, and page 4 is being fetched
C9_Witness ==
    /\ pc = "for" /\ fetched = <<1, 2, 3, 4>> /\ consecutive_empty_pages = 0
    /\ Len(all_rows) = 1 /\ slept = 3

\* C10: no page beyond max_pages is fetched, so a run fetches at most
\* max_pages pages, and then stops with the records collected so far.
C10_PageCeiling ==
    /\ Len(fetched) <= max_pages
    /\ \A i \in 1..Len(fetched) : fetched[i] = i /\ fetched[i] <= max_pages
    /\ page > max_pages => (pc \in {"sleep", "while"} \/ Stopped)
    /\ pc = "done" => df = [t |-> "df", rows |-> all_rows]

\* a hundred pages were fetched and the run returned what it had collected
C10_Witness ==
    /\ pc = "done" /\ Len(fetched) = max_pages /\ page = max_pages + 1
    /\ Len(all_rows) > 0 /\ df = [t |-> "df", rows |-> all_rows]
    /\ status_text = "Reached maximum page limit"

-----------------------------------------------------------------------------
(* C11 *)

\* the pagination metadata a payload exposes, and one of its fields
PagerOf(payload) == _safe_get(payload, <<Key("data"), Key("pager")>>, JNull)
PagerField(payload, name) == _safe_get(PagerOf(payload), <<Key(name)>>, JNull)

\* current_page exceeds total_pages
PagerExceeds(payload) ==
    /\ IsNumeric(PagerField(payload, "current_page"))
    /\ IsNumeric(PagerField(payload, "total_pages"))
    /\ Tenths(PagerField(payload, "current_page")) > Tenths(PagerField(payload, "total_pages"))

\* total_items is 0
PagerNoItems(payload) == EqualsZero(PagerField(payload, "total_items"))

Ended == pc \in {"after_loop", "done", "failed"}

\* C11 as stated: a payload whose pager shows current_page exceeding
\* total_pages, or total_items equal to 0, stops the run on that page: no
\* product of the page is extracted and no further page is fetched.
C11_PagerStops ==
    /\ []((Ty(data) = "dict" /\ Truthy(PagerOf(data))
            /\ (PagerExceeds(data) \/ PagerNoItems(data))) => Ended)
    /\ [][(Ty(data') = "dict" /\ Truthy(PagerOf(data'))
            /\ (PagerExceeds(data') \/ PagerNoItems(data')))
           => all_rows' = all_rows]_vars
    /\ [][Ended => (fetched' = fetched /\ all_rows' = all_rows /\ Ended')]_vars

\* C11, amended: current_page exceeding a total_pages other than 0, or
\* total_items equal to 0, stops the run on that page: no product of the page
\* is extracted and no further page is fetched. A total_pages of 0 is no
\* stop signal.
C11_PagerStopsNonZero ==
    /\ []((Ty(data) = "dict" /\ Truthy(PagerOf(data))
            /\ ((PagerExceeds(data) /\ Tenths(PagerField(data, "total_pages")) # 0)
                \/ PagerNoItems(data))) => Ended)
    /\ [][(Ty(data') = "dict" /\ Truthy(PagerOf(data'))
            /\ ((PagerExceeds(data') /\ Tenths(PagerField(data', "total_pages")) # 0)
                \/ PagerNoItems(data')))
           => all_rows' = all_rows]_vars
    /\ [][Ended => (fetched' = fetched /\ all_rows' = all_rows /\ Ended')]_vars
    /\ []((Ty(data) = "dict" /\ PagerExceeds(data) /\ ~PagerNoItems(data)
            /\ Tenths(PagerField(data, "total_pages")) = 0 /\ pc = "for")
           => products = _find_products(data))

\* page 2 carried a product list and a pager past its last page: the run
\* returned the record of page 1 only
C11_Witness ==
    /\ pc = "done" /\ fetched = <<1, 2>> /\ Len(all_rows) = 1
    /\ PagerExceeds(data) /\ Tenths(PagerField(data, "total_pages")) # 0
    /\ _find_products(data) # << >>
    /\ status_text = "No more pages available"

-----------------------------------------------------------------------------
(* C12 *)

\* C12 as stated: every delay is followed by another page fetch, and no
\* delay is taken after the page that ends the run: a run that has ended
\* took one delay fewer than it fetched pages.
C12_DelayOnlyBetweenFetches ==
    /\ [][(pc = "while" /\ slept > 0) => fetched' = Append(fetched, page)]_vars
    /\ []((Ended /\ fetched # << >>) => slept = Len(fetched) - 1)

\* C12, amended: every delay is followed by another page fetch unless the
\* page it follows was page max_pages; a run ended by the page ceiling took
\* as many delays as it fetched pages, any other run one fewer.
C12_DelayExceptAtCeiling ==
    /\ [][(pc = "while" /\ slept > 0 /\ page <= max_pages)
            => fetched' = Append(fetched, page)]_vars
    /\ [][(pc = "while" /\ slept > 0 /\ page > max_pages)
            => (fetched' = fetched /\ pc' = "after_loop")]_vars
    /\ []((Ended /\ fetched # << >> /\ page <= max_pages) => slept = Len(fetched) - 1)
    /\ []((Ended /\ page > max_pages) => (slept = Len(fetched) /\ slept = max_pages))
    /\ [](pc = "sleep" => slept = Len(fetched) - 1)

\* one delay between the fetches of pages 1 and 2, none after page 2, which
\* reached the target
C12_Witness ==
    /\ pc = "done" /\ fetched = <<1, 2>> /\ slept = 1
    /\ collected = target_count /\ status_text = "Page added"

-----------------------------------------------------------------------------
(* C13 *)

\* no earlier rule of plp_to_api takes the URL: the category fallback does
FallbackApplies(url) ==
    /\ ~q_cond(url)
    /\ ~facet_cond(parts_of(url))
    /\ ~tag_cond(parts_of(url))
    /\ ~brand_cond(parts_of(url))
    /\ ~catbrand_cond(parts_of(url))

\* C13: in the category fallback, whenever the chosen slug, stripped of
\* category- and sanitized, is empty, plp_to_api fails with ValueError and
\* returns no endpoint; otherwise it returns the category endpoint of the
\* sanitized slug.
C13_EmptySlugFails ==
    (upc = "returned" /\ FallbackApplies(plp_url))
    => IF sanitize(category_raw_slug(parts_of(plp_url))) = << >>
       THEN api = ValueError
       ELSE api = Endpoint(<<S_v1, S_categories,
                             sanitize(category_raw_slug(parts_of(plp_url))), S_search>>, SortPage)

-----------------------------------------------------------------------------
(* C14 *)

\* the sanitized slugs an endpoint of the tag, brand, category+brand or
\* category rule carries in its path
SlugsOf(a) ==
    IF a.t # "ok" \/ Len(a.path) < 3 THEN {}
    ELSE IF a.path[2] \in {S_tags, S_brands} /\ Len(a.path) = 3 THEN {a.path[3]}
    ELSE IF a.path[2] = S_categories /\ Len(a.path) = 6 THEN {a.path[3], a.path[5]}
    ELSE IF a.path[2] = S_categories /\ Len(a.path) = 4 THEN {a.path[3]}
    ELSE {}

\* the characters of [A-Za-z0-9-]
AsciiSlugChars ==
    {"a","b","c","d","e","f","g","h","i","j","k","l","m","n","o","p","q","r","s",
     "t","u","v","w","x","y","z","A","B","C","D","E","F","G","H","I","J","K","L",
     "M","N","O","P","Q","R","S","T","U","V","W","X","Y","Z",
     "0","1","2","3","4","5","6","7","8","9","-"}

\* C14 as stated: sanitizing a sanitized slug returns it unchanged, and a
\* sanitized slug contains only characters of [A-Za-z0-9-].
C14_SanitizeAscii ==
    upc = "returned" =>
        \A slug \in SlugsOf(api) :
            /\ sanitize(slug) = slug
            /\ \A i \in 1..Len(slug) : slug[i] \in AsciiSlugChars

\* C14, amended: sanitizing a sanitized slug returns it unchanged, and a
\* sanitized slug contains only hyphens and characters that are letters or
\* digits of any script (str.isalnum), which the letters outside ASCII are;
\* every other character of the raw slug is dropped.
C14_SanitizeAlnum ==
    upc = "returned" =>
        \A slug \in SlugsOf(api) :
            /\ sanitize(slug) = slug
            /\ \A i \in 1..Len(slug) :
                 /\ slug[i] \in AsciiSlugChars \cup {"U+00E9"}
                 /\ slug[i] \notin {"_", "!", "/"}

\* the tag slug caf(U+00E9)-1 was carried through with its accented letter
C14_Witness ==
    /\ upc = "returned"
    /\ tag_cond(parts_of(plp_url))
    /\ parts_of(plp_url)[2] = <<"c","a","f","U+00E9","-","1">>
    /\ SlugsOf(api) = {<<"c","a","f","U+00E9","-","1">>}

-----------------------------------------------------------------------------
(* _update_url_page *)

MaxPageArg == 12

\* urllib.parse.unquote_plus: "+" is a space, %XX the character it encodes
RECURSIVE UnquotePlus(_)
UnquotePlus(s) ==
    IF s = << >> THEN << >>
    ELSE IF Head(s) = "+" THEN <<" ">> \o UnquotePlus(Tail(s))
    ELSE IF StartsWith(s, <<"%","2","0">>) THEN <<" ">> \o UnquotePlus(SubSeq(s, 4, Len(s)))
    ELSE IF StartsWith(s, <<"%","5","B">>) THEN <<"[">> \o UnquotePlus(SubSeq(s, 4, Len(s)))
    ELSE IF StartsWith(s, <<"%","5","D">>) THEN <<"]">> \o UnquotePlus(SubSeq(s, 4, Len(s)))
    ELSE IF StartsWith(s, <<"%","2","1">>) THEN <<"!">> \o UnquotePlus(SubSeq(s, 4, Len(s)))
    ELSE IF StartsWith(s, <<"%","C","3","%","A","9">>)
         THEN <<"U+00E9">> \o UnquotePlus(SubSeq(s, 7, Len(s)))
    ELSE <<Head(s)>> \o UnquotePlus(Tail(s))

\* parse_qs(query, keep_blank_values=keep) of a query given as its raw
\* key=value pairs: a dict, as a sequence of [k, v] in insertion order, from
\* each decoded key to the list of its decoded values
RECURSIVE parse_qs_into(_, _, _)
parse_qs_into(pairs, keep, acc) ==
    IF pairs = << >> THEN acc
    ELSE LET key == UnquotePlus(Head(pairs).k)
             val == UnquotePlus(Head(pairs).v)
         IN IF Head(pairs).v = << >> /\ ~keep THEN parse_qs_into(Tail(pairs), keep, acc)
            ELSE IF \E i \in 1..Len(acc) : acc[i].k = key
            THEN parse_qs_into(Tail(pairs), keep,
                     [i \in 1..Len(acc) |->
                        IF acc[i].k = key THEN [k |-> key, v |-> Append(acc[i].v, val)]
                        ELSE acc[i]])
            ELSE parse_qs_into(Tail(pairs), keep, Append(acc, [k |-> key, v |-> <<val>>]))

\* line 125
parse_qs(query) == parse_qs_into(query, FALSE, << >>)

\* line 126: qs["page"] = [str(new_page)]
set_page(qs, n) ==
    IF \E i \in 1..Len(qs) : qs[i].k = S_page
    THEN [i \in 1..Len(qs) |-> IF qs[i].k = S_page THEN [k |-> S_page, v |-> <<Digits(n)>>] ELSE qs[i]]
    ELSE Append(qs, [k |-> S_page, v |-> <<Digits(n)>>])

\* line 127: urlencode(..., doseq=True): one quoted pair per value
RECURSIVE urlencode_doseq(_)
urlencode_doseq(d) ==
    IF d = << >> THEN << >>
    ELSE [i \in 1..Len(Head(d).v) |-> [k |-> QuotePlus(Head(d).k), v |-> QuotePlus(Head(d).v[i])]]
         \o urlencode_doseq(Tail(d))

\* lines 123-128
_update_url_page(u, n) ==
    [u EXCEPT !.query = urlencode_doseq(set_page(parse_qs(u.query), n))]

RawPair(key, val) == [k |-> key, v |-> val]

\* queries of endpoints, as raw key=value pairs
EndpointQueries ==
    { PageOnly,
      SortPage,
      urlencode(<<RawPair(S_q, <<"r","e","d"," ","s","c","a","r","f">>), RawPair(S_page, S_1)>>),
      urlencode(SortPage \o <<RawPair(FacetKey(0), S_ab), RawPair(FacetKey(1), <<"x">>)>>),
      <<RawPair(S_sort, S_7)>>,
      << >>,
      <<RawPair(<<"a">>, <<"1">>), RawPair(<<"a">>, <<"2">>), RawPair(S_page, <<"4">>)>>,
      <<RawPair(S_page, <<"1">>), RawPair(S_page, <<"2">>), RawPair(<<"a">>, <<"1">>)>>,
      <<RawPair(S_q, <<"r","e","d","%","2","0","s","c","a","r","f">>)>>,
      <<RawPair(<<"a">>, << >>), RawPair(<<"b">>, <<"1">>)>> }

EndpointPaths == { <<S_v1, S_search>>, <<S_v1, S_categories, S_ab, S_search>> }

InitPage ==
    /\ start_url \in { Endpoint(path, query) : path \in EndpointPaths, query \in EndpointQueries }
    /\ new_page \in 1..MaxPageArg
    /\ page_url = NoApi /\ ppc = "call"
    /\ UrlIdle /\ RowIdle /\ DrvIdle /\ GetIdle

UpdatePage ==
    /\ ppc = "call"
    /\ page_url' = _update_url_page(start_url, new_page)
    /\ ppc' = "returned"
    /\ UNCHANGED <<start_url, new_page, urlVars, rowVars, drvVars, getVars>>

NextPage == UpdatePage

SpecPage == InitPage /\ [][NextPage]_vars

-----------------------------------------------------------------------------
(* C15 *)

\* the parameters of a query other than page, each with the list of its values
OtherParams(dict) == { dict[i] : i \in { j \in 1..Len(dict) : dict[j].k # S_page } }

C15_RoundTripNonBlank ==
    ppc = "returned" =>
        /\ start_page(page_url) = new_page
        /\ parse_qs_values(page_url.query, S_page) = <<Digits(new_page)>>
        /\ page_url.path = start_url.path
        /\ OtherParams(parse_qs(page_url.query)) = OtherParams(parse_qs(start_url.query))
        /\ \A i \in 1..Len(page_url.query) : page_url.query[i].v # << >>

-----------------------------------------------------------------------------
(* C16 *)

S_red_scarf == <<"r","e","d"," ","s","c","a","r","f">>

\* the query term of a listing URL: the first non-empty value of q
QueryTerm(u) == parse_qs_values(u.query, S_q)[1]

\* C16 as stated: for a URL with a non-empty q the endpoint is the generic
\* search path with exactly the parameters q and page=1, the term
\* URL-encoded; the term "red scarf" is carried as red%20scarf.
C16_SearchPercent20 ==
    (upc = "returned" /\ q_cond(plp_url)) =>
        /\ api.t = "ok" /\ api.path = <<S_v1, S_search>>
        /\ Len(api.query) = 2
        /\ api.query[1].k = S_q /\ api.query[2] = RawPair(S_page, S_1)
        /\ UnquotePlus(api.query[1].v) = QueryTerm(plp_url)
        /\ QueryTerm(plp_url) = S_red_scarf
             => api.query[1].v = <<"r","e","d","%","2","0","s","c","a","r","f">>

\* C16, amended: for a URL with a non-empty q the endpoint is the generic
\* search path with exactly the parameters q and page=1, the term
\* form-encoded: decoding the value gives the term back, and a space is
\* carried as "+", so the term "red scarf" is carried as red+scarf.
C16_SearchPlus ==
    (upc = "returned" /\ q_cond(plp_url)) =>
        /\ api.t = "ok" /\ api.path = <<S_v1, S_search>>
        /\ Len(api.query) = 2
        /\ api.query[1].k = S_q /\ api.query[2] = RawPair(S_page, S_1)
        /\ UnquotePlus(api.query[1].v) = QueryTerm(plp_url)
        /\ \A i \in 1..Len(api.query[1].v) : api.query[1].v[i] # " "
        /\ QueryTerm(plp_url) = S_red_scarf
             => api.query[1].v = <<"r","e","d","+","s","c","a","r","f">>

\* /search/?q=red scarf was turned into /v1/search/?q=red+scarf&page=1
C16_Witness ==
    /\ upc = "returned"
    /\ plp_url = [path |-> <<"/">> \o S_search \o <<"/">>, query |-> <<RawPair(S_q, S_red_scarf)>>]
    /\ api = Endpoint(<<S_v1, S_search>>,
                      <<RawPair(S_q, <<"r","e","d","+","s","c","a","r","f">>), RawPair(S_page, S_1)>>)

-----------------------------------------------------------------------------
(* C17 *)

\* the non-empty path segments that follow the first "facet" segment
AfterFacet(parts) ==
    SelectSeq([i \in 1..(Len(parts) - IndexOf(parts, S_facet)) |-> parts[IndexOf(parts, S_facet) + i]],
              LAMBDA seg : seg # << >>)

\* the text facetURL[i]
FacetParam(i) == S_facetURL \o <<"[">> \o Digits(i) \o <<"]">>

\* the endpoint is the facet endpoint of the segments segs: they follow
\* /v1/facet/search in the path, and the decoded query is sort=7, page=1 and
\* facetURL[i]=segs[i] for each i, in order
IsFacetEndpoint(a, segs) ==
    /\ a.t = "ok"
    /\ a.path = <<S_v1, S_facet, S_search>> \o segs
    /\ Len(a.query) = 2 + Len(segs)
    /\ a.query[1] = RawPair(S_sort, S_7)
    /\ a.query[2] = RawPair(S_page, S_1)
    /\ \A i \in 1..Len(segs) :
          /\ UnquotePlus(a.query[2 + i].k) = FacetParam(i - 1)
          /\ UnquotePlus(a.query[2 + i].v) = segs[i]

-----------------------------------------------------------------------------
(* C18 *)

\* a segment that starts with category-, without that leading prefix
StripCategoryPrefix(seg) == SubSeq(seg, Len(S_category_) + 1, Len(seg))

\* C18: for a URL that reaches the category+brand rule (a "search" segment
\* followed by a segment prefixed category- and a further segment), the
\* endpoint is /v1/categories/<cat>/brands/<brand>/search/?page=1 without a
\* sort parameter, <cat> being the category segment with only its leading
\* category- stripped, then sanitized, and <brand> the sanitized next segment.
C18_CategoryBrandPrefixOnly ==
    (/\ upc = "returned"
     /\ ~q_cond(plp_url)
     /\ ~amended_facet(parts_of(plp_url))
     /\ ~doc_tag(parts_of(plp_url))
     /\ ~doc_brand(parts_of(plp_url))
     /\ amended_catbrand(parts_of(plp_url)))
    => LET parts == parts_of(plp_url)
           i == IndexOf(parts, S_search)
       IN api = Endpoint(<<S_v1, S_categories, sanitize(StripCategoryPrefix(parts[i + 1])),
                           S_brands, sanitize(parts[i + 2]), S_search>>,
                         <<RawPair(S_page, S_1)>>)

-----------------------------------------------------------------------------
(* _get_json: one call, a step per HTTP request.  A response is either an
   exception of requests.get or a status with a body; a body is a JSON
   document or a text that no JSON parser accepts. *)

RETRIES == 2
RETRIES_notebook == 3

MaxKeys == 3

Retries == IF variant = "app" THEN RETRIES ELSE RETRIES_notebook

InSeq(x, s) == \E i \in 1..Len(s) : s[i] = x

\* truth value of the scrapingbee_api_keys argument
KeysGiven(arg) ==
    IF "str" \in DOMAIN arg THEN arg.str # ""
    ELSE IF "list" \in DOMAIN arg THEN arg.list # << >>
    ELSE FALSE

\* k and k.strip()
ValidKey(k) == k # "" /\ k # " "

normalize_keys(arg) ==
    IF "str" \in DOMAIN arg THEN <<arg.str>>
    ELSE SelectSeq(arg.list, ValidKey)

NoBody == [text |-> ""]
Parsable(resp) == "json" \in DOMAIN resp.body
ErrorPage(resp) == resp.body = [text |-> "scrapingbee error"]

\* range(RETRIES): is there another attempt after attempt att
MoreAttempts_abort(att, n) == FALSE

\* a retry loop that never ends
MoreAttempts_forever(att, n) == TRUE

MoreAttempts(att, n) == att + 1 < n

\* if selected_key in failed_keys: continue
KeyUsable_always(k, failed) == TRUE

KeyUsable(k, failed) == ~InSeq(k, failed)

\* the next position of the loop over api_keys at or after from, 0 when the loop ends
NextKey(keys, from, failed) ==
    LET usable == {j \in from..Len(keys) : KeyUsable(keys[j], failed)}
    IN IF usable = {} THEN 0 ELSE CHOOSE j \in usable : \A m \in usable : j <= m

\* what one proxied response does to the retry loop of the selected key
ProxyOutcome(resp) ==
    IF resp.exc # "none" THEN "retry"
    ELSE IF resp.status = 200
         THEN IF Parsable(resp) THEN "return"
              ELSE IF ErrorPage(resp) THEN "error_page"
              ELSE "retry"
    ELSE IF resp.status = 403 THEN "denied"
    ELSE "retry"

\* the direct branch returns r.json() of a 200 response
DirectSuccess(resp) == resp.exc = "none" /\ resp.status = 200 /\ Parsable(resp)

\* time.sleep(0.7) after a failed attempt
Backoff(att) == IF variant = "app" THEN (IF att < RETRIES - 1 THEN 1 ELSE 0) ELSE 1

Statuses == {200, 201, 403, 500}
JsonBodies == {[json |-> JDict(<< >>)], [json |-> JNull]}
TextBodies == {[text |-> "scrapingbee error"], [text |-> "<html>"]}
\* a 200 response carries any body; of the other statuses 201 is given a JSON
\* body and 403 and 500 none
Responses ==
    {[exc |-> "none", status |-> 200, body |-> b] : b \in JsonBodies \cup TextBodies}
    \cup {[exc |-> "none", status |-> 201, body |-> [json |-> JNull]]}
    \cup {[exc |-> "none", status |-> st, body |-> NoBody] : st \in Statuses \ {200, 201}}
    \cup {[exc |-> e, status |-> 0, body |-> NoBody] : e \in {"Timeout", "ConnectionError"}}

KeyNames == {"k1", "k2", " "}
KeyLists == UNION {[1..n -> KeyNames] : n \in 0..MaxKeys}
KeyArgs == {NoKeys} \cup {[str |-> k] : k \in {"", "k1"}} \cup {[list |-> l] : l \in KeyLists}

\* a key that is not in the map counts as a key whose counters are 0 (lines 181-182)
ZeroStats == [k \in KeyNames |-> [used |-> 0, success |-> 0, failed |-> 0, rate_limited |-> 0]]

\* api_key_stats[key][field] += n for each field of the sequence, when the map is not None
Count(stats, key, fields) ==
    IF stats = NoStats THEN stats
    ELSE [stats EXCEPT ![key] =
            [f \in DOMAIN stats[key] |->
               stats[key][f] + Cardinality({i \in 1..Len(fields) : fields[i] = f})]]

\* the counters one proxied request moves: used before the first attempt of
\* the key (line 183), success on status 200 (line 205), failed on an error
\* page (line 241), rate_limited and failed on 403 (lines 251, 259), failed
\* when the retries of the key end without the key in failed_keys (line 289)
Counted(att, resp, outcome) ==
    (IF att = 0 THEN <<"used">> ELSE << >>)
    \o (IF resp.exc = "none" /\ resp.status = 200 THEN <<"success">> ELSE << >>)
    \o (IF outcome = "error_page" THEN <<"failed">> ELSE << >>)
    \o (IF outcome = "denied" THEN <<"rate_limited", "failed">> ELSE << >>)
    \o (IF outcome = "retry" /\ ~MoreAttempts(att, RETRIES) THEN <<"failed">> ELSE << >>)

InitGet ==
    /\ gpc = "call"
    /\ \/ /\ variant = "app"
          /\ use_scrapingbee \in BOOLEAN
          /\ scrapingbee_api_keys \in KeyArgs
          /\ fallback_to_direct \in BOOLEAN
          /\ api_key_stats \in {NoStats, ZeroStats}
       \/ /\ variant = "notebook"
          /\ use_scrapingbee = FALSE
          /\ scrapingbee_api_keys = NoKeys
          /\ fallback_to_direct = FALSE
          /\ api_key_stats = NoStats
    /\ api_keys = << >> /\ key_idx = 0 /\ attempt = 0 /\ failed_keys = << >>
    /\ requests = << >> /\ response = NoResponse /\ naps = 0 /\ returned = NoData
    /\ UrlIdle /\ RowIdle /\ DrvIdle /\ PageIdle

\* lines 150-168 and 310-314: up to the first request
GetJsonCall ==
    /\ gpc = "call"
    /\ IF use_scrapingbee /\ KeysGiven(scrapingbee_api_keys)
       THEN LET keys == normalize_keys(scrapingbee_api_keys)
            IN IF keys = << >>
               THEN /\ gpc' = IF fallback_to_direct THEN "direct" ELSE "raised"
                    /\ UNCHANGED <<api_keys, key_idx>>
               ELSE /\ gpc' = "proxy"
                    /\ api_keys' = keys
                    /\ key_idx' = 1
       ELSE /\ gpc' = "direct"
            /\ UNCHANGED <<api_keys, key_idx>>
    /\ UNCHANGED <<variant, use_scrapingbee, scrapingbee_api_keys, fallback_to_direct,
                   attempt, failed_keys, requests, response, naps, returned, api_key_stats>>
    /\ UNCHANGED <<urlVars, rowVars, drvVars, pageVars>>

\* lines 291-308: where the call goes once the loop over api_keys has ended
AfterKeys_always_direct(fb) == "direct"

AfterKeys(fb) == IF fb THEN "direct" ELSE "raised"

\* the loop over api_keys moves on from the selected key (lines 173-176, 291-308)
LeaveKey(failed) ==
    LET j == NextKey(api_keys, key_idx + 1, failed)
    IN /\ attempt' = 0
       /\ IF j # 0
          THEN gpc' = "proxy" /\ key_idx' = j
          ELSE /\ gpc' = AfterKeys(fallback_to_direct)
               /\ UNCHANGED key_idx

\* lines 196-282: one request through the selected key and what follows it
ProxyRequest ==
    /\ gpc = "proxy"
    /\ \E resp \in Responses :
         LET selected_key == api_keys[key_idx]
             outcome == ProxyOutcome(resp)
         IN /\ requests' = Append(requests, selected_key)
            /\ response' = resp
            /\ api_key_stats' = Count(api_key_stats, selected_key, Counted(attempt, resp, outcome))
            /\ CASE outcome = "return" ->
                      /\ gpc' = "returned"
                      /\ returned' = resp.body.json
                      /\ UNCHANGED <<key_idx, attempt, failed_keys, naps>>
                 [] outcome = "denied" ->
                      /\ failed_keys' = Append(failed_keys, selected_key)
                      /\ LeaveKey(failed_keys')
                      /\ UNCHANGED <<naps, returned>>
                 [] outcome = "error_page" ->
                      /\ failed_keys' = IF InSeq(selected_key, failed_keys) THEN failed_keys
                                        ELSE Append(failed_keys, selected_key)
                      /\ LeaveKey(failed_keys')
                      /\ UNCHANGED <<naps, returned>>
                 [] outcome = "retry" ->
                      /\ naps' = naps + (IF attempt < RETRIES - 1 THEN 1 ELSE 0)
                      /\ IF MoreAttempts(attempt, RETRIES)
                         THEN attempt' = attempt + 1 /\ UNCHANGED <<gpc, key_idx>>
                         ELSE LeaveKey(failed_keys)
                      /\ UNCHANGED <<failed_keys, returned>>
    /\ UNCHANGED <<variant, use_scrapingbee, scrapingbee_api_keys, fallback_to_direct, api_keys>>
    /\ UNCHANGED <<urlVars, rowVars, drvVars, pageVars>>

\* lines 315-337 (json_scrapperv2.py 80-89): one direct request and what follows it
DirectRequest ==
    /\ gpc = "direct"
    /\ \E resp \in Responses :
         /\ requests' = Append(requests, "direct")
         /\ response' = resp
         /\ IF DirectSuccess(resp)
            THEN /\ gpc' = "returned"
                 /\ returned' = resp.body.json
                 /\ UNCHANGED <<attempt, naps>>
            ELSE /\ naps' = naps + Backoff(attempt)
                 /\ IF MoreAttempts(attempt, Retries)
                    THEN attempt' = attempt + 1 /\ UNCHANGED gpc
                    ELSE gpc' = "raised" /\ UNCHANGED attempt
                 /\ UNCHANGED returned
    /\ UNCHANGED <<variant, use_scrapingbee, scrapingbee_api_keys, fallback_to_direct,
                   api_keys, key_idx, failed_keys, api_key_stats>>
    /\ UNCHANGED <<urlVars, rowVars, drvVars, pageVars>>

NextGet == GetJsonCall \/ ProxyRequest \/ DirectRequest

SpecGet == InitGet /\ [][NextGet]_vars

-----------------------------------------------------------------------------
(* C19 *)

DirectCount == Cardinality({i \in 1..Len(requests) : requests[i] = "direct"})
LastDirect == requests # << >> /\ requests[Len(requests)] = "direct"

\* an attempt fails on a transport error, a status other than 200 or a body that is not JSON
FailedAttempt(resp) == resp.exc # "none" \/ resp.status # 200 \/ "json" \notin DOMAIN resp.body

\* C19: the direct fetch sends at most RETRIES requests (3 in the notebook); a
\* request that succeeds ends the call with the JSON value of its body; a
\* failed one (transport error, status other than 200, unparsable body) is
\* followed by the next request while fewer than RETRIES were sent and by
\* RuntimeError once all RETRIES were sent; RuntimeError is raised by the
\* direct fetch in no other case.
C19_DirectFetch ==
    /\ [](DirectCount <= Retries)
    /\ []((gpc = "returned" /\ LastDirect) =>
            (~FailedAttempt(response) /\ returned = response.body.json))
    /\ []((gpc = "raised" /\ LastDirect) =>
            (DirectCount = Retries /\ FailedAttempt(response)))
    /\ [][gpc = "direct" =>
            /\ requests' = Append(requests, "direct")
            /\ IF FailedAttempt(response')
               THEN gpc' = (IF DirectCount' < Retries THEN "direct" ELSE "raised")
               ELSE gpc' = "returned" /\ returned' = response'.body.json]_vars

\* a direct call of the application whose first request failed and whose second one succeeded
C19_Witness ==
    /\ variant = "app" /\ ~use_scrapingbee
    /\ requests = <<"direct", "direct">>
    /\ gpc = "returned" /\ returned = JDict(<< >>)

-----------------------------------------------------------------------------
(* C20 *)

Denied(resp) == resp.exc = "none" /\ resp.status = 403

\* the keys after the selected one that are not marked in failed
LaterUsable(failed) == {j \in (key_idx + 1)..Len(api_keys) : ~InSeq(api_keys[j], failed)}

-----------------------------------------------------------------------------
(* C21 *)

\* every key of the normalized list was sent at least one request
KeysTried == \A i \in 1..Len(api_keys) : InSeq(api_keys[i], requests)

\* no request through a key follows a direct request
DirectLast == \A i, j \in 1..Len(requests) : (i < j /\ requests[i] = "direct") => requests[j] = "direct"

\* the states of a call that counts as proxied
FallbackState(proxied) ==
    proxied =>
      /\ DirectCount > 0 => (fallback_to_direct /\ KeysTried /\ DirectLast)
      /\ ~fallback_to_direct => DirectCount = 0
      /\ (gpc = "returned" /\ LastDirect) =>
           (~FailedAttempt(response) /\ returned = response.body.json)
      /\ (LastDirect /\ DirectCount = RETRIES /\ FailedAttempt(response)) => gpc = "raised"
      /\ (gpc = "raised" /\ requests = << >>) => (api_keys = << >> /\ ~fallback_to_direct)

\* the steps of a call that counts as proxied
FallbackStep(proxied) ==
    proxied =>
      /\ (gpc = "proxy" /\ gpc' = "direct") => (fallback_to_direct /\ KeysTried')
      /\ (gpc = "proxy" /\ gpc' = "raised") => (~fallback_to_direct /\ KeysTried')
      /\ (gpc = "proxy" /\ gpc' \notin {"proxy", "returned"} /\ ~fallback_to_direct) => gpc' = "raised"
      /\ (gpc = "call" /\ gpc' = "direct") => fallback_to_direct

-----------------------------------------------------------------------------
(* C22 *)

ValueAt(p, path) == _safe_get(p, path, JNull)

\* the values the comparisons of lines 498 and 512 may meet are numbers or None
NumericPrices(p) ==
    /\ \A i \in 1..Len(DiscountPaths) :
         Ty(ValueAt(p, DiscountPaths[i])) = "null" \/ IsNumeric(ValueAt(p, DiscountPaths[i]))
    /\ \A i \in 1..Len(OriginalPaths) :
         Ty(ValueAt(p, OriginalPaths[i])) = "null" \/ IsNumeric(ValueAt(p, OriginalPaths[i]))
    /\ Ty(_extract_selling_price(p)) = "null" \/ IsNumeric(_extract_selling_price(p))

\* the discount paths whose value is positive, in order
PositiveDiscounts(p) ==
    SelectSeq(DiscountPaths,
              LAMBDA path : IsNumeric(ValueAt(p, path)) /\ Tenths(ValueAt(p, path)) > 0)

\* the original-price paths whose value is strictly greater than the selling price, in order
Exceeding(p, selling) ==
    SelectSeq(OriginalPaths,
              LAMBDA path : IsNumeric(ValueAt(p, path)) /\ Tenths(ValueAt(p, path)) > Tenths(selling))

\* d is (original - selling) / original * 100 rounded to one decimal: a float
\* no further than half a tenth from the quotient (original > 0)
IsPercent(d, original, selling) ==
    /\ Ty(d) = "float"
    /\ LET num == 100 * (Tenths(original) - Tenths(selling))
           den == Tenths(original)
           off == 10 * num - Va(d) * den
       IN 2 * (IF off < 0 THEN 0 - off ELSE off) <= den

-----------------------------------------------------------------------------
(* _find_products applied once to a payload in which a list is wrapped in
   dicts and lists up to MaxDepth deep *)

MaxDepth == 2

\* the lists a payload may carry
BaseLists ==
    { JList(<<Product(JNum(1)), Product(JNum(2))>>),
      JList(<<JDict(<<[k |-> "id", v |-> JNum(1)], [k |-> "name", v |-> JStr(S_ab)]>>)>>),
      JList(<<JDict(<<[k |-> "id", v |-> JNum(1)]>>)>>),
      JList(<<JStr(<<"x">>)>>),
      JList(<< >>) }

\* one more level around a node: a dict under "a", "data" or "products", or a list
Wrap(x) ==
    { JDict(<<[k |-> "a", v |-> x]>>),
      JDict(<<[k |-> "data", v |-> x]>>),
      JDict(<<[k |-> "products", v |-> x]>>),
      JList(<<x>>) }

RECURSIVE Wrapped(_)
Wrapped(n) == IF n = 0 THEN BaseLists ELSE UNION {Wrap(x) : x \in Wrapped(n - 1)}

FindPayloads == UNION {Wrapped(n) : n \in 0..MaxDepth} \cup {JNull, JDict(<< >>)}

InitFind ==
    /\ pc = "find" /\ data \in FindPayloads /\ products = << >>
    /\ target_count = 0 /\ page = 0 /\ collected = 0
    /\ seen_ids = {} /\ all_rows = << >> /\ consecutive_empty_pages = 0 /\ idx = 0
    /\ products_added_this_page = 0 /\ status_text = "" /\ df = NoDf
    /\ fetched = << >> /\ slept = 0 /\ feed = "idle"
    /\ UrlIdle /\ RowIdle /\ PageIdle /\ GetIdle

\* lines 339-352
FindProducts ==
    /\ pc = "find"
    /\ products' = _find_products(data)
    /\ pc' = "found"
    /\ UNCHANGED <<data, target_count, page, collected, seen_ids, all_rows,
                   consecutive_empty_pages, idx, products_added_this_page,
                   status_text, df, fetched, slept, feed>>
    /\ UNCHANGED <<urlVars, rowVars, pageVars, getVars>>

NextFind == FindProducts

SpecFind == InitFind /\ [][NextFind]_vars

-----------------------------------------------------------------------------
(* C23 *)

\* every node of a payload: the node, the values of a dict, the elements of a list
RECURSIVE Descendants(_)
Descendants(node) ==
    {node} \cup
    (IF Ty(node) \in {"dict", "list"}
     THEN UNION {Descendants(IF Ty(node) = "dict" THEN Va(node)[i].v ELSE Va(node)[i]) :
                   i \in 1..Len(Va(node))}
     ELSE {})

\* a list whose first element is an object with an id key and a title-like key
IsProductList(node) ==
    /\ Ty(node) = "list" /\ Va(node) # << >> /\ Ty(Va(node)[1]) = "dict"
    /\ HasKey(Va(node)[1], "id")
    /\ \E k \in TitleKeys : HasKey(Va(node)[1], k)

DirectProducts(payload) == _safe_get(payload, <<Key("data"), Key("products")>>, JNull)

\* C23: _find_products returns data.products when it is a non-empty list;
\* otherwise, whenever a product list exists anywhere in the payload (inside
\* dicts and inside elements of lists, at any depth) a product list of the
\* payload is returned, and the empty list is returned only when none exists.
C23_FindsNestedList ==
    pc = "found" =>
      IF Ty(DirectProducts(data)) = "list" /\ Va(DirectProducts(data)) # << >>
      THEN products = Va(DirectProducts(data))
      ELSE IF \E n \in Descendants(data) : IsProductList(n)
           THEN \E n \in Descendants(data) : IsProductList(n) /\ products = Va(n)
           ELSE products = << >>

-----------------------------------------------------------------------------
(* C24 *)

SellingPaths ==
    << <<Key("price"), Key("selling_price")>>,
       <<Key("default_variant"), Key("price"), Key("selling_price")>>,
       <<Key("variants"), At(0), Key("price"), Key("selling_price")>>,
       <<Key("summary"), Key("price"), Key("selling_price")>> >>

\* the positions of SellingPaths whose value is not null
NonNullSelling(p) == {i \in 1..Len(SellingPaths) : Ty(ValueAt(p, SellingPaths[i])) # "null"}

\* C24: _extract_selling_price returns the value of the first of the four
\* selling_price paths that is not null, a 0 included; when all four are absent
\* or null it returns the top-level min_price, null when that is absent; the
\* record of the product carries that value.
C24_SellingPrice ==
    rpc = "returned" =>
      LET v == _extract_selling_price(prod)
      IN /\ IF NonNullSelling(prod) # {}
            THEN \E i \in NonNullSelling(prod) :
                   /\ \A j \in NonNullSelling(prod) : i <= j
                   /\ v = ValueAt(prod, SellingPaths[i])
            ELSE v = ValueAt(prod, <<Key("min_price")>>)
         /\ Ty(row) = "dict" => dict_get(row, "selling_price") = v

\* price.selling_price is null, variants[0] has 0 and summary has 900: 0 is returned
C24_Witness ==
    /\ rpc = "returned"
    /\ Ty(ValueAt(prod, SellingPaths[1])) = "null"
    /\ ValueAt(prod, SellingPaths[3]) = JNum(0)
    /\ ValueAt(prod, SellingPaths[4]) = JNum(900)
    /\ Ty(row) = "dict" /\ dict_get(row, "selling_price") = JNum(0)

-----------------------------------------------------------------------------
(* C25 *)

\* C25: the pages fetched in one run are 1, 2, 3, ... in this order, 1 being
\* the page parameter of the classified endpoint: none is fetched twice, none
\* is skipped; a page is fetched only from the loop test, after the for loop
\* over the products of the page before it has ended.
C25_SequentialPages ==
    /\ [](/\ \A i \in 1..Len(fetched) : fetched[i] = i
          /\ fetched # << >> => (api.t = "ok" /\ start_page(api) = 1))
    /\ [][fetched' # fetched =>
            /\ pc = "while"
            /\ fetched' = Append(fetched, page)
            /\ page = Len(fetched) + 1
            /\ products = << >> \/ idx > Len(products)]_vars

\* three pages were fetched one after the other
C25_Witness == fetched = <<1, 2, 3>> /\ pc = "for" /\ idx = 1

-----------------------------------------------------------------------------
(* C26 *)

\* the pager of the payload has no total_items field
PagerLacksItems(payload) ==
    /\ Ty(payload) = "dict" /\ Truthy(PagerOf(payload))
    /\ Ty(PagerOf(payload)) = "dict" /\ ~HasKey(PagerOf(payload), "total_items")

\* C26: when the page just fetched has a pager without a total_items field and
\* its current_page does not exceed total_pages, the pager check does not end
\* the run, and the products of the page go to the for loop.
C26_MissingTotalItems ==
    [][(fetched' # fetched /\ PagerLacksItems(data') /\ pager_check(data', page) # "raise"
          /\ ~PagerExceeds(data'))
       => /\ pc' # "after_loop" \/ _find_products(data') = << >>
          /\ _find_products(data') # << >> => (pc' = "for" /\ products' = _find_products(data'))]_vars

-----------------------------------------------------------------------------
(* C27 *)

\* C27: in every state of a run the collected counter, the number of
\* accumulated records and the size of seen_ids are equal, and seen_ids is the
\* set of the identifiers of the accumulated records; a product whose
\* extraction raises changes none of the three.
C27_StateAgrees ==
    /\ [](/\ collected = Len(all_rows)
          /\ Cardinality(seen_ids) = collected
          /\ seen_ids = { RowId(all_rows[i]) : i \in 1..Len(all_rows) })
    /\ [][(/\ pc = "for"
           /\ Ty(products[idx]) = "dict"
           /\ Hashable(dict_get(products[idx], "id"))
           /\ IsRaise(_row(products[idx])))
          => (all_rows' = all_rows /\ collected' = collected /\ seen_ids' = seen_ids)]_vars

\* one product was collected and the extraction of another, not seen before, raised
C27_Witness ==
    /\ pc \in {"for", "page_end"} /\ collected = 1 /\ idx > 1
    /\ \E i \in 1..(idx - 1) :
         /\ Ty(products[i]) = "dict" /\ Hashable(dict_get(products[i], "id"))
         /\ set_key(dict_get(products[i], "id")) \notin seen_ids
         /\ IsRaise(_row(products[i]))

-----------------------------------------------------------------------------
(* C28 *)

\* C28: whenever the counters are kept, for every key success + failed does
\* not exceed used, success does not exceed used, and rate_limited does not
\* exceed failed.
C28_StatsConsistent ==
    api_key_stats # NoStats =>
      \A k \in DOMAIN api_key_stats :
        /\ api_key_stats[k].success + api_key_stats[k].failed <= api_key_stats[k].used
        /\ api_key_stats[k].success <= api_key_stats[k].used
        /\ api_key_stats[k].rate_limited <= api_key_stats[k].failed

-----------------------------------------------------------------------------
(* C29 *)

\* every request is answered or fails within TIMEOUT, so a call that can take
\* a step takes it
SpecGetFair == SpecGet /\ WF_vars(NextGet)

ProxyCount == Len(requests) - DirectCount

\* C29: a call of the application's _get_json ends, returning a JSON value or
\* raising RuntimeError. With K the length of the normalized key list, each
\* position of the list gets at most RETRIES attempts, so at most K * RETRIES
\* requests go through the proxy, at most RETRIES are direct, and at most
\* K * RETRIES + RETRIES are sent in all; once the direct fetch has begun the
\* call sends no proxied request and begins no second direct fetch.
C29_Terminates ==
    /\ <>(gpc \in {"returned", "raised"})
    /\ []((gpc = "returned" => returned # NoData) /\ (gpc = "raised" => returned = NoData))
    /\ [](variant = "app" =>
            /\ attempt < RETRIES
            /\ ProxyCount <= Len(api_keys) * RETRIES
            /\ DirectCount <= RETRIES
            /\ Len(requests) <= Len(api_keys) * RETRIES + RETRIES
            /\ DirectLast)
    /\ [][gpc = "proxy" =>
            \/ gpc' # "proxy"
            \/ key_idx' > key_idx /\ attempt' = 0
            \/ key_idx' = key_idx /\ attempt' = attempt + 1]_vars
    /\ [][gpc = "direct" =>
            /\ gpc' \in {"direct", "returned", "raised"}
            /\ gpc' = "direct" => attempt' = attempt + 1]_vars

\* three keys, every attempt failed, the direct attempts failed too: 3 * 2 + 2 requests
C29_Witness ==
    /\ Len(api_keys) = 3 /\ fallback_to_direct
    /\ ProxyCount = 3 * RETRIES /\ DirectCount = RETRIES
    /\ gpc = "raised"

-----------------------------------------------------------------------------
(* scrape_from_plp of the notebook, json_scrapperv2.py lines 305-342 *)

\* the page number and the fetch log are kept up to this length; the loop of
\* lines 314-329 reads neither, so what it does after that is unaffected
MaxNbPage == 3

Upto(n) == IF n < MaxNbPage THEN n + 1 ELSE n

\* json_scrapperv2.py lines 24-57: the category rule alone
plp_to_api_notebook(url) == category_api(parts_of(url))

\* json_scrapperv2.py lines 284-303: the record of lines 520-538 with the
\* column test_title_fa after item_category5
_row_notebook(p) ==
    IF IsRaise(_row(p)) THEN _row(p)
    ELSE LET r == Va(_row(p))
         IN JDict(SubSeq(r, 1, 9)
                  \o <<[k |-> "test_title_fa",
                        v |-> PyOr(dict_get(p, "test_title_fa"), JStr(<< >>))]>>
                  \o SubSeq(r, 10, Len(r)))

\* json_scrapperv2.py line 314
NbLoopGuard == collected < target_count

\* what a successful fetch returns
NbPayloads == { JNull, Listing(<< >>) } \cup { Listing(list) : list \in ProductLists }

InitNb ==
    /\ feed = "notebook"
    /\ target_count \in 1..MaxTarget
    /\ plp_url \in DriverUrls /\ api = NoApi /\ upc = "idle"
    /\ pc = "start" /\ page = 0 /\ collected = 0 /\ seen_ids = {} /\ all_rows = << >>
    /\ consecutive_empty_pages = 0 /\ data = NoData /\ products = << >> /\ idx = 0
    /\ products_added_this_page = 0 /\ status_text = "" /\ df = NoDf
    /\ fetched = << >> /\ slept = 0
    /\ RowIdle /\ PageIdle /\ GetIdle

\* json_scrapperv2.py lines 306-313
NbStart ==
    /\ pc = "start"
    /\ api' = plp_to_api_notebook(plp_url)
    /\ IF api'.t = "ValueError"
       THEN pc' = "failed" /\ page' = page
       ELSE pc' = "while" /\ page' = start_page(api')
    /\ UNCHANGED <<plp_url, upc, target_count, collected, seen_ids, all_rows,
                   consecutive_empty_pages, data, products, idx,
                   products_added_this_page, status_text, df, fetched, slept, feed>>
    /\ UNCHANGED <<rowVars, pageVars, getVars>>

\* json_scrapperv2.py line 314: the loop ends
NbLoopExit ==
    /\ pc = "while" /\ ~NbLoopGuard
    /\ pc' = "after_loop"
    /\ UNCHANGED <<target_count, page, collected, seen_ids, all_rows,
                   consecutive_empty_pages, data, products, idx,
                   products_added_this_page, status_text, df, fetched, slept, feed>>
    /\ UNCHANGED <<urlVars, rowVars, pageVars, getVars>>

\* json_scrapperv2.py lines 315-320: _get_json returns payload
NbFetchPage ==
    /\ pc = "while" /\ NbLoopGuard
    /\ \E payload \in NbPayloads :
        /\ fetched' = IF Len(fetched) < MaxNbPage THEN Append(fetched, page) ELSE fetched
        /\ data' = payload
        /\ products' = _find_products(payload)
        /\ IF products' = << >>
           THEN pc' = "after_loop" /\ idx' = idx
           ELSE pc' = "for" /\ idx' = 1
    /\ UNCHANGED <<target_count, page, collected, seen_ids, all_rows,
                   consecutive_empty_pages, products_added_this_page,
                   status_text, df, slept, feed>>
    /\ UNCHANGED <<urlVars, rowVars, pageVars, getVars>>

\* json_scrapperv2.py lines 321-329: one pass of the for loop, on products[idx]
NbForStep ==
    /\ pc = "for"
    /\ LET p == products[idx]
           pid == dict_get(p, "id")
           next == IF idx = Len(products) THEN "page_end" ELSE "for"
       IN IF Ty(p) # "dict" \/ ~Hashable(pid) \/ (~AlreadySeen(pid) /\ IsRaise(_row_notebook(p))) THEN
               \* the exception leaves scrape_from_plp
               /\ pc' = "failed"
               /\ UNCHANGED <<idx, all_rows, seen_ids, collected>>
          ELSE IF AlreadySeen(pid) THEN
               /\ pc' = next /\ idx' = idx + 1
               /\ UNCHANGED <<all_rows, seen_ids, collected>>
          ELSE
               /\ all_rows' = Append(all_rows, _row_notebook(p))
               /\ seen_ids' = seen_ids \cup {set_key(pid)}
               /\ collected' = collected + 1
               /\ idx' = idx + 1
               /\ pc' = IF collected' >= target_count THEN "page_end" ELSE next
    /\ UNCHANGED <<target_count, page, consecutive_empty_pages, data, products,
                   products_added_this_page, status_text, df, fetched, slept, feed>>
    /\ UNCHANGED <<urlVars, rowVars, pageVars, getVars>>

\* json_scrapperv2.py lines 330-331: page += 1 and the delay, then the loop test
NbPageEnd ==
    /\ pc = "page_end"
    /\ page' = Upto(page)
    /\ slept' = Upto(slept)
    /\ pc' = "while"
    /\ UNCHANGED <<target_count, collected, seen_ids, all_rows,
                   consecutive_empty_pages, data, products, idx,
                   products_added_this_page, status_text, df, fetched, feed>>
    /\ UNCHANGED <<urlVars, rowVars, pageVars, getVars>>

\* json_scrapperv2.py lines 332-342: the frame is written and returned
NbAfterLoop ==
    /\ pc = "after_loop"
    /\ df' = [t |-> "df", rows |-> all_rows]
    /\ pc' = "done"
    /\ UNCHANGED <<target_count, page, collected, seen_ids, all_rows,
                   consecutive_empty_pages, data, products, idx,
                   products_added_this_page, status_text, fetched, slept, feed>>
    /\ UNCHANGED <<urlVars, rowVars, pageVars, getVars>>

NextNb == NbStart \/ NbLoopExit \/ NbFetchPage \/ NbForStep \/ NbPageEnd \/ NbAfterLoop

SpecNb == InitNb /\ [][NextNb]_vars

\* the notebook runs on as long as it has a step to take
SpecNbFair == SpecNb /\ WF_vars(NextNb)

-----------------------------------------------------------------------------
(* C30 *)

\* the page in hand is not empty and every entry of it was collected before
StalePage ==
    /\ pc = "page_end" /\ products # << >> /\ collected < target_count
    /\ \A i \in 1..Len(products) : AlreadySeen(dict_get(products[i], "id"))

\* C30: when every fetch succeeds the notebook's scrape_from_plp ends, having
\* written its output or with an exception, whatever the pages hold
C30_NotebookTerminates == <>(pc \in {"done", "failed"})

\* a stale page sends the run back to the loop test with nothing changed but
\* the page number, and the loop test passes again
C30_StalePageLoops ==
    [][StalePage => /\ pc' = "while" /\ NbLoopGuard'
                    /\ <<collected, seen_ids, all_rows>>' = <<collected, seen_ids, all_rows>>]_vars

C30_Witness == StalePage /\ Len(fetched) = MaxNbPage /\ page = MaxNbPage

====
